---- MODULE Spec2Model ----
(***************************************************************************)
(* Multi-axis stepper coordination: the Stepper classes of the repository  *)
(* (8.0.py, lab8_stepper_multiprocessing.py, Ben_Lab8.py, lab8.py,         *)
(* stepper_class_shiftregister_multiprocessing.py, steppa.py, ben.py).     *)
(* Every variant drives the same 8-entry half-step table through one       *)
(* shift register; they differ in what is shared between processes, in     *)
(* which lock guards what, and in how a command reaches the stepping loop. *)
(*                                                                         *)
(* Angles are exact: one unit is 1/Degree of a degree, chosen so that one  *)
(* motor step (360/1024 or 360/4096 degrees, both dyadic and exact in the  *)
(* code's doubles) is a whole number of units.                             *)
(***************************************************************************)
EXTENDS Integers, Sequences, FiniteSets

\* ------------------------------------------------------------ constants
FullTurn == 360
StepsPerRevLo == 1024
StepsPerRevHi == 4096
SeqLen == 8
SliceBits == 4
ShiftBits == 8
WordBits == 32
NumAxes == 2

\* ------------------------------------------------------------ bounds
MaxCmds == 2
MaxZero == 1
DeltaPoints == 72
MovePoints == 4
MaxAxes == 3
ShiftInputBits == 8
\* the start() calls of the controlling thread in one run
MaxStarts == 3

RECURSIVE GCD(_, _)
GCD(a, b) == IF b = 0 THEN a ELSE GCD(b, a % b)

\* units per degree: the finest step (360/4096 degree) is a whole number of units
Degree == StepsPerRevHi \div GCD(StepsPerRevHi, FullTurn)
Rev == FullTurn * Degree
HalfTurn == Rev \div 2

Variants == {"8.0", "lab8mp", "Ben_Lab8", "lab8", "scsm", "steppa", "ben"}

\* the Stepper objects that can exist; the first nreg of them do
Axes == 0 .. (MaxAxes - 1)
Procs == 1 .. MaxCmds
\* the Thread objects start() can create
Threads == 1 .. MaxStarts

\* ------------------------------------------------------------ per-variant facts
\* steps_per_degree = StepsPerRev / 360
StepsPerRev(v) == IF v \in {"lab8mp", "lab8", "scsm"} THEN StepsPerRevHi ELSE StepsPerRevLo

\* 1 / steps_per_degree, in units
StepUnits(v) == Rev \div StepsPerRev(v)

\* commands go through a per-axis queue drained by one worker process
IsQueue(v) == v \in {"lab8mp", "Ben_Lab8"}

\* goAngle computes the delta in the calling (parent) process
DeltaInParent(v) == v \in {"lab8", "scsm"}

\* shifter_outputs is a multiprocessing.Value (else a plain class attribute,
\* of which every forked process has its own copy)
WordShared(v) == v \notin {"lab8", "scsm"}

\* step_state is a multiprocessing.Value
StepStateShared(v) == v \in {"8.0", "steppa"}

\* angle is a multiprocessing.Value
AngleShared(v) == v # "lab8"

\* where __step takes the bus lock: around read-modify-write-transmit ("rmw"),
\* around the transmit only ("tx"), or nowhere ("none")
BusLockAt(v) == CASE v = "lab8" -> "tx"
                  [] v = "scsm" -> "none"
                  [] OTHER -> "rmw"

\* __rotate holds the motor's own lock (lock1 / lock2 of the main program)
\* for the whole rotation
MotorLock(v) == v \in {"lab8mp", "scsm"}

\* the angle is updated by two statements, each a locked read and a locked
\* write of the shared Value: angle.value += ..., then angle.value %= 360.0
AngleSplit(v) == v = "scsm"

\* the class tests isinstance(self.angle, multiprocessing.Value);
\* multiprocessing.Value is a function and not a type, so the test raises
\* TypeError wherever it is executed (__step, __rotate_to, zero)
IsinstanceRaises(v) == v = "ben"

\* the variant has a public relative rotate(delta)
HasRel(v) == v \in {"lab8mp", "lab8", "scsm", "steppa"}

\* zero() also resets a step_state that the stepping process sees
ZeroResetsStepState(v) == v \in {"8.0", "steppa"}

\* ------------------------------------------------------------ pure functions
Abs(x) == IF x < 0 THEN -x ELSE x

\* __sgn
Sgn(x) == IF x = 0 THEN 0 ELSE IF x > 0 THEN 1 ELSE -1

\* steppa.py: direction = 1 if delta > 0 else -1
DirSteppa(x) == IF x > 0 THEN 1 ELSE -1

Pow2(n) == 2 ^ n

seq == <<1, 3, 2, 6, 4, 12, 8, 9>>

\* Stepper.seq[i], i in 0..7
SeqAt(i) == seq[i + 1]

\* self.shifter_bit_start of the k-th Stepper created
BitStart(a) == SliceBits * a

\* bit i of a non-negative word
Bit(w, i) == (w \div Pow2(i)) % 2

\* (w >> start) & 0b1111
Nibble(w, a) == (w \div Pow2(BitStart(a))) % Pow2(SliceBits)

\* val &= ~mask, mask = 0b1111 << shifter_bit_start
ClearSlice(w, a) == w - Nibble(w, a) * Pow2(BitStart(a))

\* val |= seq_val << shifter_bit_start (on a word whose slice is clear)
ApplyNibble(w, a, nib) == ClearSlice(w, a) + nib * Pow2(BitStart(a))

\* total_bits = max(8, Stepper.num_steppers * 4): the width a transmit needs
\* for n motors (stepper_class_shiftregister_multiprocessing2.py)
TotalBits(n) == IF SliceBits * n > ShiftBits THEN SliceBits * n ELSE ShiftBits

\* Shifter.shiftByte(b): the 8 bits b & (1 << i), i = 0..7, reach the register
ShiftByte(b) == b % Pow2(ShiftBits)

\* the naive fold the design warns against: (target - current) % 360
DeltaNaive(cur, tgt) == (tgt - cur) % Rev

\* (target - current + 540) % 360 - 180
Delta540(cur, tgt) == ((tgt - cur + Rev + HalfTurn) % Rev) - HalfTurn

\* delta = target - angle; (delta + 180) % 360 - 180
Delta180(cur, tgt) == ((tgt - cur + HalfTurn) % Rev) - HalfTurn

\* math.remainder(target - current, 360.0): x - 360 * n, n the integer nearest
\* x / 360, ties to the even n
DeltaRemainder(cur, tgt) ==
    LET x == tgt - cur
        r == x % Rev
        q == (x - r) \div Rev
    IN  IF 2 * r < Rev THEN r
        ELSE IF 2 * r > Rev THEN r - Rev
        ELSE IF q % 2 = 0 THEN r ELSE r - Rev

\* min([alpha, beta, gamma], key=abs): the first of the minima
DeltaMin3(cur, tgt) ==
    LET alpha == tgt - cur
        beta == tgt - cur + Rev
        gamma == tgt - cur - Rev
    IN  IF Abs(alpha) <= Abs(beta) /\ Abs(alpha) <= Abs(gamma) THEN alpha
        ELSE IF Abs(beta) <= Abs(gamma) THEN beta
        ELSE gamma

ShortestDelta(v, cur, tgt) ==
    CASE v = "scsm" -> Delta180(cur, tgt)
      [] v = "lab8mp" -> DeltaRemainder(cur, tgt)
      [] v = "steppa" -> DeltaMin3(cur, tgt)
      [] OTHER -> Delta540(cur, tgt)

\* round(steps_per_degree * abs(delta)), halves up
NumStepsRounded(v, delta) == (2 * Abs(delta) + StepUnits(v)) \div (2 * StepUnits(v))

\* int(steps_per_degree * delta), the abs forgotten: range() of a negative
\* count is empty
NumStepsSigned(v, delta) == IF delta < 0 THEN 0 ELSE delta \div StepUnits(v)

\* the number of steps when the loop always runs at least once
\* (max(1, int(steps_per_degree * abs(delta))))
NumStepsAtLeastOne(v, delta) == IF Abs(delta) \div StepUnits(v) = 0 THEN 1 ELSE Abs(delta) \div StepUnits(v)

\* int(steps_per_degree * abs(delta))
NumSteps(v, delta) == Abs(delta) \div StepUnits(v)

\* the angle update without its % 360
AngleAfterStepNoWrap(v, ang, d) == ang + d * StepUnits(v)

\* (angle + dir / steps_per_degree) % 360
AngleAfterStep(v, ang, d) == (ang + d * StepUnits(v)) % Rev

\* the step_state update with an off-by-one modulus
NextStepStateMod7(s, d) == (s + d) % (SeqLen - 1)

\* (step_state + dir) % 8
NextStepState(s, d) == (s + d) % SeqLen

\* ------------------------------------------------------------ state
VARIABLES
    variant,    \* which Stepper class runs (fixed for a behaviour)
    nreg,       \* Stepper.num_steppers: the number of Stepper objects constructed
    bitstart,   \* per axis: shifter_bit_start as __init__ assigned it (-1: not constructed)
    proc,       \* one record per goAngle / rotate call: the process (or queue entry) that executes it
    nsub,       \* number of goAngle / rotate calls made so far
    queue,      \* per axis: the command queue (queue / cmd_queue), as call numbers
    word,       \* Stepper.shifter_outputs when it is a shared multiprocessing.Value
    bus,        \* the byte last shifted out to the register
    pins,       \* the shift register's three input pins and the bits clocked in since the last latch
    ss,         \* per axis: step_state as the stepping processes share it (a Value, or the worker's own)
    angle,      \* per axis: angle as the main process sees it (the shared Value; lab8.py: the parent's copy)
    block,      \* holder of the bus lock (0: free)
    mlock,      \* per axis: holder of the motor's own lock (0: free)
    zpend,      \* main process inside zero(): the axis whose step_state is still to be reset (-1: none)
    committed,  \* history: per axis, the nibble its latest step put on the bus (-1: none yet)
    nzero,      \* number of zero() calls made so far
    zeroed,     \* history: the axis whose zero() has returned and which has taken no step since (-1: none)
    shift,      \* Shifter.shiftByte in progress: its argument, loop index, and the pin writes made so far
    bug,        \* the Bug object of bug_class.py, its update thread and the thread controlling it
    wk,         \* per axis: the worker process of a queue variant ("run", or "exited" after the None sentinel)
    caller,     \* the main program inside goAnglesSimultaneous / goAngleBlocking / close
    dv, dcur, dtgt, dres, dphase   \* swept inputs: the shortest-delta functions on (dcur, dtgt); one move from angle dcur with argument dtgt

dynvars == <<variant, pins, shift, bug, wk, caller, nreg, bitstart, proc, nsub, queue, word, bus, ss, angle, block, mlock, zpend,
             committed, nzero, zeroed>>
axisvars == <<nreg, bitstart, proc, nsub, queue, word, bus, ss, angle, block, mlock, zpend, committed, nzero, zeroed>>
deltavars == <<dv, dcur, dtgt, dres, dphase>>
vars == <<variant, pins, shift, bug, wk, caller, nreg, bitstart, proc, nsub, queue, word, bus, ss, angle, block, mlock, zpend, committed, nzero, zeroed,
          dv, dcur, dtgt, dres, dphase>>

StepPcs == {"adv", "acq", "store", "tx", "ang", "rel"}
ActivePcs == StepPcs \cup {"start", "snap"}

FreeProc == [pc |-> "free", axis |-> 0, kind |-> "abs", arg |-> 0, tiny |-> FALSE, nan |-> FALSE, dlt |-> 0, dir |-> 0,
             rem |-> 0, n0 |-> 0, nib |-> 0, val |-> 0, lword |-> 0, lss |-> 0, langle |-> 0, k |-> 0, tmp |-> 0]

\* the arguments the main program passes: 0 and one and a half steps either
\* way, so that moves are short (one step from 0, two from one step beyond
\* it), wrap below 0 and truncate
Targets(v) == { -((3 * StepUnits(v)) \div 2), 0, (3 * StepUnits(v)) \div 2 }

\* Besides these, goAngle is also called with a negative target too small to
\* register against 360 in a double (such as -1e-20): the argument 0 with
\* tiny set.  In every sum with a current angle or with 540 it is absorbed and
\* acts as 0; only Ben_Lab8.py also takes target % 360.0 of it on its own.
TinyFlags(v, k, x) == IF v = "Ben_Lab8" /\ k = "abs" /\ x = 0 THEN {FALSE, TRUE} ELSE {FALSE}

DeltaGrid == { k * (Rev \div DeltaPoints) : k \in 0 .. (DeltaPoints - 1) }

\* no shiftByte call is being traced, no Bug is running, every worker runs, the
\* main program is in none of its waiting calls
\* the register after power-up: data, clock and latch pins low, nothing clocked in
PinsIdle == [ser |-> 0, clk |-> 0, lat |-> 0, reg |-> 0]
ShiftIdle == [pc |-> "idle", b |-> 0, i |-> 0, pin |-> "none", wire |-> <<>>]
\* a Thread object that does not exist: its loop position and its locals
ThreadNone == [pc |-> "none", pattern |-> 0, x0 |-> 0, rw |-> FALSE]
\* no Bug object: x, isWrapOn, __running, __thread (the index of the Thread
\* object, 0 for None), the start() calls made, the Thread objects, the last
\* word given to the shifter, the controlling thread's position in stop()
BugIdle == [made |-> FALSE, x |-> 0, wrap |-> FALSE, running |-> FALSE, cur |-> 0, ncalls |-> 0,
            thr |-> [i \in Threads |-> ThreadNone], last |-> -1, mpc |-> "idle", stopped |-> FALSE]
CallerIdle == [pc |-> "idle", op |-> "none", motors |-> <<>>, tgts |-> <<>>, procs |-> <<>>, k |-> 0, raised |-> FALSE,
               from |-> [a \in Axes |-> 0], seen |-> [a \in Axes |-> 0], mark |-> [a \in Axes |-> -1]]
CallsIdle == shift = ShiftIdle /\ bug = BugIdle /\ wk = [a \in Axes |-> "run"] /\ caller = CallerIdle
\* ... and nothing has been shifted into the register yet
AuxIdle == pins = PinsIdle /\ CallsIdle

DeltaIdle == dv = "none" /\ dcur = 0 /\ dtgt = 0 /\ dres = 0 /\ dphase = "idle"

\* Stepper.__init__ for each of the NumAxes motors of the main program
InitAxes ==
    /\ nreg = NumAxes
    /\ bitstart = [a \in Axes |-> IF a < NumAxes THEN BitStart(a) ELSE -1]
    /\ proc = [p \in Procs |-> FreeProc]
    /\ nsub = 0
    /\ queue = [a \in Axes |-> <<>>]
    /\ word = 0
    /\ bus = 0
    /\ ss = [a \in Axes |-> 0]
    /\ angle = [a \in Axes |-> 0]
    /\ block = 0
    /\ mlock = [a \in Axes |-> 0]
    /\ zpend = -1
    /\ committed = [a \in Axes |-> -1]
    /\ nzero = 0
    /\ zeroed = -1

\* the classes whose transmit runs under a lock common to all motors: a byte
\* of theirs goes out whole.  (The one class without such a lock is run under
\* SpecUnlocked.)
LockedVariants == { v \in Variants : BusLockAt(v) # "none" }

Init ==
    /\ variant \in LockedVariants
    /\ InitAxes
    /\ AuxIdle
    /\ DeltaIdle

\* ------------------------------------------------------------ the main process
\* goAngle(x) / rotate(x) called on axis a.  Queue variants put the command on
\* the axis's queue; the others start a process for it (lab8.py and
\* stepper_class_shiftregister_multiprocessing.py after computing the delta
\* from the angle the parent reads now).  A forked child starts with the
\* parent's copies of the plain attributes, which the parent never steps.
SubmitBlocking(a, k, x, t) ==
    /\ a < nreg
    /\ zpend = -1
    /\ nsub < MaxCmds
    /\ k = "rel" => HasRel(variant)
    /\ x \in Targets(variant)
    /\ t \in TinyFlags(variant, k, x)
    /\ LET p == nsub + 1
       IN  /\ proc' = [proc EXCEPT ![p] =
                         [FreeProc EXCEPT !.pc = "done", !.axis = a, !.kind = k, !.arg = x, !.tiny = t]]
           /\ angle' = [angle EXCEPT ![a] = IF k = "rel" THEN (@ + x) % Rev ELSE x % Rev]
    /\ nsub' = nsub + 1
    /\ UNCHANGED <<variant, pins, shift, bug, wk, caller, nreg, bitstart, queue, word, bus, ss, block, mlock, zpend, committed, nzero, zeroed>>
    /\ UNCHANGED deltavars

SubmitRetarget(a, k, x, t) ==
    /\ a < nreg
    /\ zpend = -1
    /\ nsub < MaxCmds
    /\ k = "rel" => HasRel(variant)
    /\ x \in Targets(variant)
    /\ t \in TinyFlags(variant, k, x)
    /\ LET p == nsub + 1
           d == IF k = "rel" THEN x
                ELSE IF DeltaInParent(variant) THEN ShortestDelta(variant, angle[a], x)
                ELSE 0
       IN  /\ proc' = [q \in Procs |->
                         IF q = p THEN [FreeProc EXCEPT !.pc = IF IsQueue(variant) THEN "queued" ELSE "start",
                                                        !.axis = a, !.kind = k, !.arg = x, !.tiny = t, !.dlt = d,
                                                        !.langle = angle[a]]
                         ELSE IF proc[q].axis = a /\ proc[q].pc \in StepPcs
                              THEN [proc[q] EXCEPT !.dir = Sgn(d), !.rem = proc[q].rem + 1]
                              ELSE proc[q]]
           /\ queue' = IF IsQueue(variant) THEN [queue EXCEPT ![a] = Append(@, p)] ELSE queue
    /\ nsub' = nsub + 1
    /\ UNCHANGED <<variant, pins, shift, bug, wk, caller, nreg, bitstart, word, bus, ss, angle, block, mlock, zpend, committed, nzero, zeroed>>
    /\ UNCHANGED deltavars

Call(a, k, x, t) ==
    /\ a < nreg
    /\ zpend = -1
    /\ nsub < MaxCmds
    /\ k = "rel" => HasRel(variant)
    /\ LET p == nsub + 1
           d == IF k = "rel" THEN x
                ELSE IF DeltaInParent(variant) THEN ShortestDelta(variant, angle[a], x)
                ELSE 0
       IN  /\ proc' = [proc EXCEPT ![p] =
                         [FreeProc EXCEPT !.pc = IF IsQueue(variant) THEN "queued" ELSE "start",
                                          !.axis = a, !.kind = k, !.arg = x, !.tiny = t, !.dlt = d,
                                          !.langle = angle[a]]]
           /\ queue' = IF IsQueue(variant) THEN [queue EXCEPT ![a] = Append(@, p)] ELSE queue
    /\ nsub' = nsub + 1
    /\ UNCHANGED <<variant, pins, shift, bug, wk, caller, nreg, bitstart, word, bus, ss, angle, block, mlock, zpend, committed, nzero, zeroed>>
    /\ UNCHANGED deltavars

\* the calls the main program makes in the general runs: arguments from Targets
Submit(a, k, x, t) ==
    /\ x \in Targets(variant)
    /\ t \in TinyFlags(variant, k, x)
    /\ Call(a, k, x, t)


\* zero() that also drops what is waiting in the motor's queue
ZeroAngleFlushesQueue(a) ==
    /\ a < nreg
    /\ zpend = -1
    /\ nzero < MaxZero
    /\ angle' = [angle EXCEPT ![a] = 0]
    /\ nzero' = nzero + 1
    /\ zpend' = IF ZeroResetsStepState(variant) THEN a ELSE -1
    /\ zeroed' = IF ZeroResetsStepState(variant) THEN zeroed ELSE a
    /\ queue' = [queue EXCEPT ![a] = <<>>]
    /\ UNCHANGED <<variant, pins, shift, bug, wk, caller, nreg, bitstart, proc, nsub, word, bus, ss, block, mlock, committed>>
    /\ UNCHANGED deltavars

\* zero() that also switches every coil off
ZeroAngleClearsWord(a) ==
    /\ a < nreg
    /\ zpend = -1
    /\ nzero < MaxZero
    /\ angle' = [angle EXCEPT ![a] = 0]
    /\ nzero' = nzero + 1
    /\ zpend' = IF ZeroResetsStepState(variant) THEN a ELSE -1
    /\ zeroed' = IF ZeroResetsStepState(variant) THEN zeroed ELSE a
    /\ word' = 0
    /\ bus' = 0
    /\ UNCHANGED <<variant, pins, shift, bug, wk, caller, nreg, bitstart, proc, nsub, queue, ss, block, mlock, committed>>
    /\ UNCHANGED deltavars

\* zero(): angle.value = 0.0 under the angle's lock ...  In ben.py the
\* isinstance test ahead of the assignment raises in the calling process and
\* nothing is set.
ZeroAngle(a) ==
    /\ a < nreg
    /\ zpend = -1
    /\ nzero < MaxZero
    /\ nzero' = nzero + 1
    /\ IF IsinstanceRaises(variant)
       THEN /\ caller' = [caller EXCEPT !.raised = TRUE]
            /\ UNCHANGED <<angle, zpend, zeroed>>
       ELSE /\ angle' = [angle EXCEPT ![a] = 0]
            /\ zpend' = IF ZeroResetsStepState(variant) THEN a ELSE -1
            /\ zeroed' = IF ZeroResetsStepState(variant) THEN zeroed ELSE a
            /\ caller' = caller
    /\ UNCHANGED <<variant, pins, shift, bug, wk, nreg, bitstart, proc, nsub, queue, word, bus, ss, block, mlock, committed>>
    /\ UNCHANGED deltavars

\* zero() with step_state kept once per class instead of once per motor
ZeroStepStateAll(a) ==
    /\ zpend = a
    /\ ss' = [b \in Axes |-> 0]
    /\ zpend' = -1
    /\ zeroed' = a
    /\ UNCHANGED <<variant, pins, shift, bug, wk, caller, nreg, bitstart, proc, nsub, queue, word, bus, angle, block, mlock, committed, nzero>>
    /\ UNCHANGED deltavars

\* ... then step_state.value = 0 under the step_state's lock (8.0.py, steppa.py)
ZeroStepState(a) ==
    /\ zpend = a
    /\ ss' = [ss EXCEPT ![a] = 0]
    /\ zpend' = -1
    /\ zeroed' = a
    /\ UNCHANGED <<variant, pins, shift, bug, wk, caller, nreg, bitstart, proc, nsub, queue, word, bus, angle, block, mlock, committed, nzero>>
    /\ UNCHANGED deltavars

\* ------------------------------------------------------------ the stepping processes
\* a process that has ended: its locals are gone, what the call was remains
Ended(r) == [FreeProc EXCEPT !.pc = "done", !.axis = r.axis, !.kind = r.kind, !.arg = r.arg,
                             !.tiny = r.tiny, !.nan = r.nan, !.n0 = r.n0]

\* where a move goes once its last step is done
AfterLastStep(v) == IF v = "Ben_Lab8" THEN "snap" ELSE "done"

\* the worker is blocked in queue.get(): no command of its axis is being
\* executed, and none has ended the worker process with an exception
WorkerIdle(a) == \A q \in Procs : proc[q].axis = a => proc[q].pc \notin ActivePcs \cup {"dead"}

\* the entry close() puts on the queue in place of a command (None)
ExitSignal == 0

\* __worker_loop: cmd = queue.get()
Dequeue(a) ==
    /\ IsQueue(variant)
    /\ wk[a] = "run"
    /\ queue[a] # <<>>
    /\ Head(queue[a]) # ExitSignal
    /\ WorkerIdle(a)
    /\ proc' = [proc EXCEPT ![Head(queue[a])].pc = "start"]
    /\ queue' = [queue EXCEPT ![a] = Tail(@)]
    /\ UNCHANGED <<variant, pins, shift, bug, wk, caller, nreg, bitstart, nsub, word, bus, ss, angle, block, mlock, zpend, committed, nzero, zeroed>>
    /\ UNCHANGED deltavars

\* the guard under which a move may begin: __rotate of lab8mp and scsm first
\* takes the motor's own lock
MotorLockFree(a) == MotorLock(variant) => mlock[a] = 0

\* The move begins: an absolute move whose delta the parent has not computed
\* reads the angle once and computes the shortest delta; then numSteps and dir
\* are fixed.  (lab8mp reads the angle before it takes the motor lock, which
\* only this axis's one worker ever takes.)  In ben.py __rotate_to raises at
\* its isinstance test before any of this, and the process ends.
BeginMove(p) ==
    LET a == proc[p].axis
        delta == IF proc[p].kind = "rel" \/ DeltaInParent(variant) THEN proc[p].dlt
                 ELSE ShortestDelta(variant, angle[a], proc[p].arg)
        n == NumSteps(variant, delta)
        d == IF variant = "steppa" /\ proc[p].kind = "abs" THEN DirSteppa(delta) ELSE Sgn(delta)
    IN  /\ proc[p].pc = "start"
        /\ ~proc[p].nan
        /\ MotorLockFree(a)
        /\ proc' = IF IsinstanceRaises(variant)
                    THEN [proc EXCEPT ![p].pc = "dead"]
                    ELSE [proc EXCEPT ![p] =
                            LET r == [proc[p] EXCEPT !.dlt = delta, !.dir = d, !.rem = n, !.n0 = n,
                                                     !.pc = IF n > 0 THEN "adv" ELSE AfterLastStep(variant)]
                            IN  IF r.pc = "done" THEN Ended(r) ELSE r]
        /\ mlock' = IF MotorLock(variant) /\ n > 0 THEN [mlock EXCEPT ![a] = p] ELSE mlock
        /\ UNCHANGED <<variant, pins, shift, bug, wk, caller, nreg, bitstart, nsub, queue, word, bus, ss, angle, block, zpend, committed, nzero, zeroed>>
        /\ UNCHANGED deltavars

\* step_state lives in ss (a shared Value, or the one worker's attribute) or
\* in the process's own copy
SharedStepState(v) == StepStateShared(v) \/ IsQueue(v)

\* __step: step_state = (step_state + dir) % 8; seq_val = seq[step_state]
Advance(p) ==
    LET a == proc[p].axis
        old == IF SharedStepState(variant) THEN ss[a] ELSE proc[p].lss
        new == NextStepState(old, proc[p].dir)
    IN  /\ proc[p].pc = "adv"
        /\ ss' = IF SharedStepState(variant) THEN [ss EXCEPT ![a] = new] ELSE ss
        /\ proc' = [proc EXCEPT ![p].lss = IF SharedStepState(variant) THEN @ ELSE new,
                                ![p].nib = SeqAt(new),
                                ![p].pc = "acq"]
        /\ zeroed' = IF zeroed = a THEN -1 ELSE zeroed
        /\ UNCHANGED <<variant, pins, shift, bug, wk, caller, nreg, bitstart, nsub, queue, word, bus, angle, block, mlock, zpend, committed, nzero>>
        /\ UNCHANGED deltavars

\* with lock: the bus lock can be taken
BusLockFree == block = 0

\* __step: with lock: val = shifter_outputs.value.  Where the word is a plain
\* attribute the process reads its own copy, under no lock.
AcquireRead(p) ==
    /\ proc[p].pc = "acq"
    /\ IF BusLockAt(variant) = "rmw"
       THEN /\ BusLockFree
            /\ block' = p
            /\ proc' = [proc EXCEPT ![p].val = word, ![p].pc = "store"]
       ELSE /\ block' = block
            /\ proc' = [proc EXCEPT ![p].val = proc[p].lword, ![p].pc = "store"]
    /\ UNCHANGED <<variant, pins, shift, bug, wk, caller, nreg, bitstart, nsub, queue, word, bus, ss, angle, mlock, zpend, committed, nzero, zeroed>>
    /\ UNCHANGED deltavars

\* the word a step stores: a mask one slice too wide (0xFF << start)
StoredWordWideMask(w, a, nib) == ClearSlice(ClearSlice(w, a), (a + 1) % NumAxes) + nib * Pow2(BitStart(a))

\* the word a step stores when the old slice is not cleared first
\* (val |= seq_val << start, without val &= ~mask)
StoredWordNoClear(w, a, nib) ==
    LET old == Nibble(w, a)
        both == { i \in 0 .. (SliceBits - 1) : Bit(old, i) = 1 \/ Bit(nib, i) = 1 }
        Sum[S \in SUBSET (0 .. (SliceBits - 1))] ==
            IF S = {} THEN 0 ELSE LET i == CHOOSE j \in S : TRUE IN Pow2(i) + Sum[S \ {i}]
    IN  ClearSlice(w, a) + Sum[both] * Pow2(BitStart(a))

\* val &= ~mask; val |= seq_val << shifter_bit_start
StoredWord(w, a, nib) == ApplyNibble(w, a, nib)

\* __step: shifter_outputs = (val & ~mask) | (seq_val << shifter_bit_start)
Store(p) ==
    LET a == proc[p].axis
        new == StoredWord(proc[p].val, a, proc[p].nib)
    IN  /\ proc[p].pc = "store"
        /\ word' = IF WordShared(variant) THEN new ELSE word
        /\ proc' = [proc EXCEPT ![p].val = new,
                                ![p].lword = IF WordShared(variant) THEN @ ELSE new,
                                ![p].pc = "tx"]
        /\ UNCHANGED <<variant, pins, shift, bug, wk, caller, nreg, bitstart, nsub, queue, bus, ss, angle, block, mlock, zpend, committed, nzero, zeroed>>
        /\ UNCHANGED deltavars

\* the number of GPIO.output calls of one shiftByte: data, clock high, clock
\* low for each bit, then latch high, latch low
ShiftWrites == 3 * ShiftBits + 2

\* the pin write that raises the latch
LatchWrite == 3 * ShiftBits

\* The register's pins after GPIO.output number j (from 0) of shiftByte(b).
\* The data pin takes the level of bit j \div 3, sent lowest bit first; a clock
\* pin going from low to high shifts the data level in; writing a level the
\* pin already has makes no edge.
PinWrite(h, b, j) ==
    IF j >= LatchWrite
    THEN [h EXCEPT !.lat = IF j = LatchWrite THEN 1 ELSE 0]
    ELSE CASE j % 3 = 0 -> [h EXCEPT !.ser = Bit(b, j \div 3)]
           [] j % 3 = 1 -> [h EXCEPT !.clk = 1,
                                     !.reg = IF h.clk = 0 THEN (@ \div 2) + h.ser * Pow2(ShiftBits - 1) ELSE @]
           [] OTHER -> [h EXCEPT !.clk = 0]

\* the pins after a whole shiftByte(b) that no other process's writes cut into
PinsAfterByte(b) == [ser |-> Bit(b, ShiftBits - 1), clk |-> 0, lat |-> 0, reg |-> ShiftByte(b)]

\* a transmit after which the with-block's lock is not released
TransmitKeepsLock(p) ==
    /\ proc[p].pc = "tx"
    /\ block' = block
    /\ bus' = ShiftByte(proc[p].val)
    /\ committed' = [committed EXCEPT ![proc[p].axis] = proc[p].nib]
    /\ proc' = [proc EXCEPT ![p].val = 0, ![p].nib = 0, ![p].pc = "ang"]
    /\ pins' = PinsAfterByte(proc[p].val)
    /\ UNCHANGED <<variant, shift, bug, wk, caller, nreg, bitstart, nsub, queue, word, ss, angle, mlock, zpend, nzero, zeroed>>
    /\ UNCHANGED deltavars

\* shiftByte called on the word as it was before this step's nibble went in
\* (the transmit placed ahead of the store)
TransmitBeforeStore(p) ==
    LET a == proc[p].axis
        prev == IF committed[a] = -1 THEN 0 ELSE committed[a]
    IN  /\ proc[p].pc = "tx"
        /\ CASE BusLockAt(variant) = "rmw" -> block = p /\ block' = 0
             [] BusLockAt(variant) = "tx" -> block = 0 /\ block' = 0
             [] OTHER -> block' = block
        /\ bus' = ShiftByte(ApplyNibble(proc[p].val, a, prev))
        /\ committed' = [committed EXCEPT ![a] = proc[p].nib]
        /\ proc' = [proc EXCEPT ![p].val = 0, ![p].nib = 0, ![p].pc = "ang"]
        /\ pins' = PinsAfterByte(ApplyNibble(proc[p].val, a, prev))
        /\ UNCHANGED <<variant, shift, bug, wk, caller, nreg, bitstart, nsub, queue, word, ss, angle, mlock, zpend, nzero, zeroed>>
        /\ UNCHANGED deltavars

\* __step: self.s.shiftByte(val), then the bus lock is released.  lab8.py takes
\* the lock for the transmit alone.  Under a lock common to the motors the
\* whole byte goes out uncut.  stepper_class_shiftregister_multiprocessing.py
\* calls shiftByte under no such lock: each step here is one GPIO.output of
\* it, the outputs take the register's content when the latch pin rises, and
\* __step goes on after the last write.
Transmit(p) ==
    LET j == proc[p].k
        cut == BusLockAt(variant) = "none"
        over == ~cut \/ j = ShiftWrites - 1
    IN  /\ proc[p].pc = "tx"
        /\ CASE BusLockAt(variant) = "rmw" -> block = p /\ block' = 0
             [] BusLockAt(variant) = "tx" -> block = 0 /\ block' = 0
             [] OTHER -> block' = block
        /\ pins' = IF cut THEN PinWrite(pins, proc[p].val, j) ELSE PinsAfterByte(proc[p].val)
        /\ bus' = IF ~cut THEN ShiftByte(proc[p].val)
                  ELSE IF j = LatchWrite /\ pins.lat = 0 THEN pins.reg
                  ELSE bus
        /\ committed' = IF over THEN [committed EXCEPT ![proc[p].axis] = proc[p].nib] ELSE committed
        /\ proc' = IF over THEN [proc EXCEPT ![p].val = 0, ![p].nib = 0, ![p].k = 0, ![p].pc = "ang"]
                    ELSE [proc EXCEPT ![p].k = j + 1]
        /\ UNCHANGED <<variant, shift, bug, wk, caller, nreg, bitstart, nsub, queue, word, ss, angle, mlock, zpend, nzero, zeroed>>
        /\ UNCHANGED deltavars

\* __step: angle = (angle + dir / steps_per_degree) % 360, and the loop of
\* __rotate goes on to its next step or, after the last one, to the sleep that
\* ends it (with the motor's own lock still held where there is one).
\* ben.py raises at its isinstance test ahead of the update: the angle stays
\* and the process ends.  Where the update is split, the four steps are: read
\* the Value, write the sum, read the Value, write it modulo 360.
UpdateAngle(p) ==
    LET a == proc[p].axis
        last == proc[p].rem = 1
        j == proc[p].k
        split == AngleSplit(variant)
        over == ~split \/ j = 3
    IN  /\ proc[p].pc = "ang"
        /\ angle' = IF IsinstanceRaises(variant) \/ ~AngleShared(variant) THEN angle
                    ELSE IF ~split THEN [angle EXCEPT ![a] = AngleAfterStep(variant, angle[a], proc[p].dir)]
                    ELSE IF j = 1 THEN [angle EXCEPT ![a] = proc[p].tmp + proc[p].dir * StepUnits(variant)]
                    ELSE IF j = 3 THEN [angle EXCEPT ![a] = proc[p].tmp % Rev]
                    ELSE angle
        /\ proc' = IF IsinstanceRaises(variant) THEN [proc EXCEPT ![p].pc = "dead"]
                    ELSE IF ~over THEN [proc EXCEPT ![p].k = j + 1,
                                                    ![p].tmp = IF j \in {0, 2} THEN angle[a] ELSE @]
                    ELSE [proc EXCEPT ![p] =
                            LET r == [proc[p] EXCEPT !.langle = IF AngleShared(variant) THEN @
                                                                ELSE AngleAfterStep(variant, @, proc[p].dir),
                                                     !.k = 0, !.tmp = 0,
                                                     !.rem = @ - 1,
                                                     !.pc = IF ~last THEN "adv"
                                                            ELSE IF MotorLock(variant) THEN "rel"
                                                            ELSE AfterLastStep(variant)]
                            IN  IF r.pc = "done" THEN Ended(r) ELSE r]
        /\ zeroed' = IF zeroed = a THEN -1 ELSE zeroed
        /\ UNCHANGED <<variant, pins, shift, bug, wk, caller, nreg, bitstart, nsub, queue, word, bus, ss, block, mlock, zpend, committed, nzero>>
        /\ UNCHANGED deltavars

\* __rotate: the sleep after the last step is over, and the motor's own lock
\* is released (the with block ends; finally: self.lock.release())
EndRotate(p) ==
    /\ proc[p].pc = "rel"
    /\ mlock' = [mlock EXCEPT ![proc[p].axis] = 0]
    /\ proc' = [proc EXCEPT ![p] = Ended(proc[p])]
    /\ UNCHANGED <<variant, pins, shift, bug, wk, caller, nreg, bitstart, nsub, queue, word, bus, ss, angle, block, zpend, committed, nzero, zeroed>>
    /\ UNCHANGED deltavars

\* Python's x % 360.0 on doubles: for x >= 0 or x on the unit grid the exact
\* remainder; for a negative x too small to register against 360 the sum
\* x + 360.0 rounds to 360.0 itself
PyMod360(x, tiny) == IF x = 0 /\ tiny THEN Rev ELSE x % Rev

\* Ben_Lab8.py __rotate_to, after the loop: angle.value = target_angle % 360.0
Snap(p) ==
    /\ proc[p].pc = "snap"
    /\ angle' = [angle EXCEPT ![proc[p].axis] = PyMod360(proc[p].arg, proc[p].tiny)]
    /\ proc' = [proc EXCEPT ![p] = Ended(proc[p])]
    /\ zeroed' = IF zeroed = proc[p].axis THEN -1 ELSE zeroed
    /\ UNCHANGED <<variant, pins, shift, bug, wk, caller, nreg, bitstart, nsub, queue, word, bus, ss, block, mlock, zpend, committed, nzero>>
    /\ UNCHANGED deltavars

\* the next statement of process p's step loop can be executed
Proceed(p) == Advance(p) \/ AcquireRead(p) \/ Store(p) \/ Transmit(p) \/ UpdateAngle(p) \/ EndRotate(p)

Next ==
    \/ \E a \in Axes, k \in {"abs", "rel"}, x \in Targets(variant), t \in BOOLEAN : Submit(a, k, x, t)
    \/ \E a \in Axes : ZeroAngle(a)
    \/ \E a \in Axes : ZeroStepState(a)
    \/ \E a \in Axes : Dequeue(a)
    \/ \E p \in Procs : BeginMove(p)
    \/ \E p \in Procs : Advance(p)
    \/ \E p \in Procs : AcquireRead(p)
    \/ \E p \in Procs : Store(p)
    \/ \E p \in Procs : Transmit(p)
    \/ \E p \in Procs : UpdateAngle(p)
    \/ \E p \in Procs : EndRotate(p)
    \/ \E p \in Procs : Snap(p)

Spec == Init /\ [][Next]_vars

\* ------------------------------------------------------------ no common bus lock
\* stepper_class_shiftregister_multiprocessing.py: the main program calls
\* goAngle on its two motors, each with a lock of its own (lock1, lock2); the
\* processes' pin writes interleave one by one.  Targets: one and a half steps
\* either way.
UnlockedTargets(v) == Targets(v) \ {0}

InitUnlocked ==
    /\ variant = "scsm"
    /\ InitAxes
    /\ AuxIdle
    /\ DeltaIdle

NextUnlocked ==
    \/ \E a \in Axes, x \in UnlockedTargets(variant) : Call(a, "abs", x, FALSE)
    \/ \E p \in Procs : BeginMove(p)
    \/ \E p \in Procs : Advance(p)
    \/ \E p \in Procs : AcquireRead(p)
    \/ \E p \in Procs : Store(p)
    \/ \E p \in Procs : Transmit(p)
    \/ \E p \in Procs : UpdateAngle(p)
    \/ \E p \in Procs : EndRotate(p)

SpecUnlocked == InitUnlocked /\ [][NextUnlocked]_vars

\* the variants whose bus update runs under one lock shared by all axes
\* (8.0.py, lab8_stepper_multiprocessing.py, Ben_Lab8.py)
CoreVariants == {"8.0", "lab8mp", "Ben_Lab8"}

InitCore ==
    /\ variant \in CoreVariants
    /\ InitAxes
    /\ AuxIdle
    /\ DeltaIdle

SpecCore == InitCore /\ [][Next]_vars

\* ------------------------------------------------------------ fair scheduling
\* the operating system runs every process that can run: a process whose next
\* statement stays executable executes it
SpecCoreFair ==
    /\ InitCore /\ [][Next]_vars
    /\ \A p \in Procs : WF_vars(BeginMove(p) \/ Proceed(p) \/ Snap(p))
    /\ \A a \in Axes : WF_vars(Dequeue(a))

\* ------------------------------------------------------------ one process per call
\* 8.0.py and steppa.py: every goAngle / rotate runs in a process of its own,
\* angle and step_state are shared Values, one lock guards the bus
SharedVariants == {"8.0", "steppa"}

InitShared ==
    /\ variant \in SharedVariants
    /\ InitAxes
    /\ AuxIdle
    /\ DeltaIdle

NextShared ==
    \/ \E a \in Axes, k \in {"abs", "rel"}, x \in Targets(variant), t \in BOOLEAN : Submit(a, k, x, t)
    \/ \E a \in Axes : ZeroAngle(a)
    \/ \E a \in Axes : ZeroStepState(a)
    \/ \E p \in Procs : BeginMove(p)
    \/ \E p \in Procs : Advance(p)
    \/ \E p \in Procs : AcquireRead(p)
    \/ \E p \in Procs : Store(p)
    \/ \E p \in Procs : Transmit(p)
    \/ \E p \in Procs : UpdateAngle(p)

SpecShared == InitShared /\ [][NextShared]_vars

\* ------------------------------------------------------------ the shortest delta, swept
\* goAngle's delta for each variant, on a grid of current angles and targets
\* in [0, 360)
InitDelta ==
    /\ variant = "8.0"
    /\ InitAxes
    /\ AuxIdle
    /\ dv \in Variants
    /\ dcur \in DeltaGrid
    /\ dtgt \in DeltaGrid
    /\ dres = 0
    /\ dphase = "in"

ComputeDelta ==
    /\ dphase = "in"
    /\ dres' = ShortestDelta(dv, dcur, dtgt)
    /\ dphase' = "out"
    /\ UNCHANGED <<dv, dcur, dtgt>>
    /\ UNCHANGED dynvars

NextDelta == ComputeDelta

SpecDelta == InitDelta /\ [][NextDelta]_vars

\* ------------------------------------------------------------ the main program of 8.0.py
\* goAnglesSimultaneous([m1, m2], [90, -90]) on two freshly zeroed motors: one
\* process per motor is started, in the order of the list, then both are joined
ScenarioAngle == 90

ScenarioTarget(a) == IF a = 0 THEN ScenarioAngle * Degree ELSE -(ScenarioAngle * Degree)

InitScenario ==
    /\ variant = "8.0"
    /\ InitAxes
    /\ AuxIdle
    /\ DeltaIdle

SubmitScenario(a) ==
    /\ a < nreg
    /\ nsub = a
    /\ Call(a, "abs", ScenarioTarget(a), FALSE)

NextScenario ==
    \/ \E a \in Axes : SubmitScenario(a)
    \/ \E p \in Procs : BeginMove(p)
    \/ \E p \in Procs : Advance(p)
    \/ \E p \in Procs : AcquireRead(p)
    \/ \E p \in Procs : Store(p)
    \/ \E p \in Procs : Transmit(p)
    \/ \E p \in Procs : UpdateAngle(p)

SpecScenario == InitScenario /\ [][NextScenario]_vars

\* ------------------------------------------------------------ one more motor
\* __init__ with the two statements swapped: num_steppers += 1 before
\* shifter_bit_start = 4 * num_steppers
RegisterCountFirst ==
    /\ nreg < MaxAxes
    /\ bitstart' = [bitstart EXCEPT ![nreg] = BitStart(nreg + 1)]
    /\ nreg' = nreg + 1
    /\ UNCHANGED <<variant, pins, shift, bug, wk, caller, proc, nsub, queue, word, bus, ss, angle, block, mlock, zpend, committed, nzero, zeroed>>
    /\ UNCHANGED deltavars

\* Stepper.__init__ called once more on the same Shifter: shifter_bit_start =
\* 4 * num_steppers, num_steppers += 1, whatever num_steppers is
Register ==
    /\ nreg < MaxAxes
    /\ bitstart' = [bitstart EXCEPT ![nreg] = BitStart(nreg)]
    /\ nreg' = nreg + 1
    /\ UNCHANGED <<variant, pins, shift, bug, wk, caller, proc, nsub, queue, word, bus, ss, angle, block, mlock, zpend, committed, nzero, zeroed>>
    /\ UNCHANGED deltavars

InitRegister ==
    /\ variant \in {"8.0", "lab8mp"}
    /\ InitAxes
    /\ AuxIdle
    /\ DeltaIdle

NextRegister ==
    \/ Register
    \/ \E a \in Axes : Dequeue(a)
    \/ \E a \in Axes, k \in {"abs", "rel"}, x \in Targets(variant), t \in BOOLEAN : Submit(a, k, x, t)
    \/ \E a \in Axes : ZeroAngle(a)
    \/ \E a \in Axes : ZeroStepState(a)
    \/ \E p \in Procs : BeginMove(p)
    \/ \E p \in Procs : Advance(p)
    \/ \E p \in Procs : AcquireRead(p)
    \/ \E p \in Procs : Store(p)
    \/ \E p \in Procs : Transmit(p)
    \/ \E p \in Procs : UpdateAngle(p)
    \/ \E p \in Procs : EndRotate(p)

SpecRegister == InitRegister /\ [][NextRegister]_vars

\* ------------------------------------------------------------ non-finite arguments
\* goAngle / rotate of the queue variants called with NaN or an infinity:
\* float(x) accepts it and the command is put on the queue like any other
SubmitNonFinite(a, k) ==
    /\ IsQueue(variant)
    /\ a < nreg
    /\ zpend = -1
    /\ nsub < MaxCmds
    /\ k = "rel" => HasRel(variant)
    /\ proc' = [proc EXCEPT ![nsub + 1] =
                    [FreeProc EXCEPT !.pc = "queued", !.axis = a, !.kind = k, !.nan = TRUE]]
    /\ queue' = [queue EXCEPT ![a] = Append(@, nsub + 1)]
    /\ nsub' = nsub + 1
    /\ UNCHANGED <<variant, pins, shift, bug, wk, caller, nreg, bitstart, word, bus, ss, angle, block, mlock, zpend, committed, nzero, zeroed>>
    /\ UNCHANGED deltavars

\* The worker executes it: math.remainder(inf, 360.0) raises ValueError, and
\* with NaN (or with inf in Ben_Lab8.py, where inf % 360.0 is NaN) the delta
\* is NaN and int() of it raises ValueError (OverflowError for an infinite
\* relative delta).  Nothing catches it: the with-blocks release their locks
\* and the worker process ends; nothing has been stepped.
Crash(p) ==
    /\ proc[p].pc = "start"
    /\ proc[p].nan
    /\ proc' = [proc EXCEPT ![p].pc = "dead"]
    /\ UNCHANGED <<variant, pins, shift, bug, wk, caller, nreg, bitstart, nsub, queue, word, bus, ss, angle, block, mlock, zpend, committed, nzero, zeroed>>
    /\ UNCHANGED deltavars

InitWorkers ==
    /\ variant \in {"lab8mp", "Ben_Lab8"}
    /\ InitAxes
    /\ AuxIdle
    /\ DeltaIdle

\* whatever the worker process of axis a can do next
WorkerStep(a) ==
    \/ Dequeue(a)
    \/ \E p \in Procs : proc[p].axis = a /\ BeginMove(p)
    \/ \E p \in Procs : proc[p].axis = a /\ Crash(p)
    \/ \E p \in Procs : proc[p].axis = a /\ Advance(p)
    \/ \E p \in Procs : proc[p].axis = a /\ AcquireRead(p)
    \/ \E p \in Procs : proc[p].axis = a /\ Store(p)
    \/ \E p \in Procs : proc[p].axis = a /\ Transmit(p)
    \/ \E p \in Procs : proc[p].axis = a /\ UpdateAngle(p)
    \/ \E p \in Procs : proc[p].axis = a /\ EndRotate(p)
    \/ \E p \in Procs : proc[p].axis = a /\ Snap(p)

NextWorkers ==
    \/ \E a \in Axes, k \in {"abs", "rel"}, x \in Targets(variant), t \in BOOLEAN : Submit(a, k, x, t)
    \/ \E a \in Axes, k \in {"abs", "rel"} : SubmitNonFinite(a, k)
    \/ \E a \in Axes : ZeroAngle(a)
    \/ \E a \in Axes : WorkerStep(a)

\* the operating system runs every worker process that can run
SpecWorkers == InitWorkers /\ [][NextWorkers]_vars /\ \A a \in Axes : WF_vars(WorkerStep(a))

\* ------------------------------------------------------------ Shifter.shiftByte
\* One call shiftByte(b), traced pin write by pin write: wire is the sequence
\* of GPIO.output calls, each as <<pin, level>>.
ShiftInputs == 0 .. (Pow2(ShiftInputBits) - 1)

\* GPIO.output(pin, value): any non-zero value drives the pin high
Level(v) == IF v = 0 THEN 0 ELSE 1

InitShift ==
    /\ variant = "8.0"
    /\ InitAxes
    /\ DeltaIdle
    /\ bug = BugIdle
    /\ wk = [a \in Axes |-> "run"]
    /\ caller = CallerIdle
    /\ pins = PinsIdle
    /\ \E b \in ShiftInputs : shift = [ShiftIdle EXCEPT !.pc = "data", !.b = b]

\* shiftByte, with the bits taken from the top down: b & (1 << (7 - i))
ShiftBitMsbFirst ==
    /\ shift.pc = "data"
    /\ shift' = [shift EXCEPT
                     !.wire = Append(@, <<"serial", Level(Bit(shift.b, ShiftBits - 1 - shift.i)
                                                              * Pow2(ShiftBits - 1 - shift.i))>>),
                     !.pin = "clock",
                     !.pc = "high"]
    /\ UNCHANGED <<variant, pins, bug, wk, caller>>
    /\ UNCHANGED axisvars
    /\ UNCHANGED deltavars

\* shiftByte: GPIO.output(self.serialPin, b & (1<<i)); self.ping(self.clockPin)
ShiftBit ==
    /\ shift.pc = "data"
    /\ shift' = [shift EXCEPT
                     !.wire = Append(@, <<"serial", Level(Bit(shift.b, shift.i) * Pow2(shift.i))>>),
                     !.pin = "clock",
                     !.pc = "high"]
    /\ UNCHANGED <<variant, pins, bug, wk, caller>>
    /\ UNCHANGED axisvars
    /\ UNCHANGED deltavars

\* ping: GPIO.output(pin, 1)
PingHigh ==
    /\ shift.pc = "high"
    /\ shift' = [shift EXCEPT !.wire = Append(@, <<shift.pin, 1>>), !.pc = "low"]
    /\ UNCHANGED <<variant, pins, bug, wk, caller>>
    /\ UNCHANGED axisvars
    /\ UNCHANGED deltavars

\* ping: GPIO.output(pin, 0); back in shiftByte the loop goes on to the next
\* bit, after the last bit to self.ping(self.latchPin), and after that returns
PingLow ==
    /\ shift.pc = "low"
    /\ shift' = [shift EXCEPT
                     !.wire = Append(@, <<shift.pin, 0>>),
                     !.i = IF shift.pin = "clock" THEN @ + 1 ELSE @,
                     !.pin = IF shift.pin = "clock" /\ shift.i + 1 = ShiftBits THEN "latch" ELSE @,
                     !.pc = IF shift.pin = "latch" THEN "done"
                            ELSE IF shift.i + 1 = ShiftBits THEN "high" ELSE "data"]
    /\ UNCHANGED <<variant, pins, bug, wk, caller>>
    /\ UNCHANGED axisvars
    /\ UNCHANGED deltavars

NextShift == ShiftBit \/ PingHigh \/ PingLow

SpecShift == InitShift /\ [][NextShift]_vars

\* ------------------------------------------------------------ one move, swept
\* One goAngle / rotate call on axis 0, executed by the same actions, from each
\* state a run of k forward steps from the zeroed state leaves the motor in
\* (angle k steps, step_state k % 8, its nibble on the bus), for each of a grid
\* of arguments: whole fractions of a turn from -1/MovePoints to a full turn,
\* each of them two thirds of a step further, and the start angle itself.
MoveVariants == {"8.0", "lab8mp", "steppa", "Ben_Lab8", "ben"}

MoveStarts == 0 .. (SeqLen - 1)

MoveTargets(v) == { j * (Rev \div MovePoints) + h : j \in (-1) .. MovePoints,
                                                    h \in {0, (2 * StepUnits(v)) \div 3} }

InitMove ==
    /\ variant \in MoveVariants
    /\ \E k \in MoveStarts :
          /\ IsinstanceRaises(variant) => k = 0
          /\ angle = [a \in Axes |-> IF a = 0 THEN k * StepUnits(variant) ELSE 0]
          /\ ss = [a \in Axes |-> IF a = 0 THEN k % SeqLen ELSE 0]
          /\ word = (IF k = 0 THEN 0 ELSE SeqAt(k % SeqLen))
          /\ bus = (IF k = 0 THEN 0 ELSE SeqAt(k % SeqLen))
          /\ pins = (IF k = 0 THEN PinsIdle ELSE PinsAfterByte(SeqAt(k % SeqLen)))
          /\ committed = [a \in Axes |-> IF a = 0 /\ k > 0 THEN SeqAt(k % SeqLen) ELSE -1]
          /\ dcur = k * StepUnits(variant)
    /\ CallsIdle
    /\ nreg = NumAxes
    /\ bitstart = [a \in Axes |-> IF a < NumAxes THEN BitStart(a) ELSE -1]
    /\ proc = [p \in Procs |-> FreeProc]
    /\ nsub = 0
    /\ queue = [a \in Axes |-> <<>>]
    /\ block = 0
    /\ mlock = [a \in Axes |-> 0]
    /\ zpend = -1
    /\ nzero = 0
    /\ zeroed = -1
    /\ dv = "none"
    /\ dtgt \in MoveTargets(variant) \cup {dcur}
    /\ dres = 0
    /\ dphase = "move"

\* the one call: goAngle(dtgt) or rotate(dtgt) on axis 0
SubmitMove(k) ==
    /\ dphase = "move"
    /\ nsub = 0
    /\ Call(0, k, dtgt, FALSE)

NextMove ==
    \/ \E k \in {"abs", "rel"} : SubmitMove(k)
    \/ \E a \in Axes : Dequeue(a)
    \/ \E p \in Procs : BeginMove(p)
    \/ \E p \in Procs : Advance(p)
    \/ \E p \in Procs : AcquireRead(p)
    \/ \E p \in Procs : Store(p)
    \/ \E p \in Procs : Transmit(p)
    \/ \E p \in Procs : UpdateAngle(p)
    \/ \E p \in Procs : EndRotate(p)
    \/ \E p \in Procs : Snap(p)

SpecMove == InitMove /\ [][NextMove]_vars

\* ------------------------------------------------------------ claims
Submitted(p) == proc[p].pc # "free"
InFlight(p) == proc[p].pc \in StepPcs
InRmw(p) == proc[p].pc \in {"store", "tx"}
MoveOver(p) == proc[p].pc \in {"snap", "done"}
\* the move is at the end of its last step: at the angle update of the last
\* step, or past it in the sleep under the motor's lock
LastStepTaken(p) == \/ proc[p].pc = "ang" /\ proc[p].rem = 1
                    \/ proc[p].pc = "rel" /\ proc[p].rem = 0
HasStepped(p) == proc[p].pc \in {"acq", "store", "tx", "ang"} \/ proc[p].rem < proc[p].n0
                    \/ (MoveOver(p) /\ proc[p].n0 > 0)
OutsideSlice(i, a) == i < BitStart(a) \/ i >= BitStart(a) + SliceBits
CircDist(x, y) == LET d == (x - y) % Rev IN IF d <= Rev - d THEN d ELSE Rev - d

\* C1: the store of one step of axis X leaves every bit of the shared word
\* outside [4*X, 4*X+4) as it was immediately before the store, whatever the
\* other axes did in between.  (The word is a non-negative c_int: bits 0..30.)
C1_StepWritesOnlyOwnSlice ==
    [][\A p \in Procs :
          (proc[p].pc = "store" /\ proc'[p].pc = "tx") =>
              \A i \in 0 .. (WordBits - 2) :
                  OutsideSlice(i, proc[p].axis) => Bit(word', i) = Bit(word, i)]_vars

\* C1 witness: axis 1 has just stored its nibble while axis 0's nibble, written
\* and transmitted by an earlier step of axis 0, is still in the word.
C1_Witness ==
    \E p \in Procs : /\ proc[p].pc = "tx"
                     /\ proc[p].axis = 1
                     /\ Nibble(word, 1) = proc[p].nib
                     /\ committed[0] # -1
                     /\ Nibble(word, 0) = committed[0]

\* C2: no two processes of different axes are both between their read of the
\* word and the end of their transmit (8.0.py, lab8.py,
\* lab8_stepper_multiprocessing.py).
C2_RmwAtomic ==
    variant \in {"8.0", "lab8", "lab8mp"} =>
        \A p, q \in Procs :
            (p # q /\ proc[p].axis # proc[q].axis) => ~(InRmw(p) /\ InRmw(q))

\* C3: the word a step of axis X transmits carries, in the slice of every
\* other axis Y that has stepped, the nibble Y most recently committed
\* (stepper_class_shiftregister_multiprocessing.py, lab8.py, 8.0.py).
C3_TransmitCarriesOthers ==
    [][\A p \in Procs :
          (variant \in {"scsm", "lab8", "8.0"} /\ proc[p].pc = "tx" /\ proc'[p].pc = "ang") =>
              \A y \in Axes \ {proc[p].axis} :
                  committed[y] # -1 => Nibble(bus', y) = committed[y]]_vars

\* C4: every axis's angle lies in [0, 360) and its step_state in 0..7, in
\* every reachable state (8.0.py, Ben_Lab8.py).
C4_AngleAndStepStateInRange ==
    variant \in {"8.0", "Ben_Lab8"} =>
        \A a \in Axes : /\ angle[a] >= 0 /\ angle[a] < Rev
                        /\ ss[a] \in 0 .. (SeqLen - 1)

\* C5: for current and target in [0, 360) the shortest delta d of every
\* variant has |d| <= 180 and (current + d) mod 360 = target mod 360.
C5_ShortestDeltaBounded ==
    dphase = "out" =>
        /\ Abs(dres) <= HalfTurn
        /\ (dcur + dres) % Rev = dtgt % Rev

\* C5 witness: a target more than half a turn above the current angle is
\* reached by a negative delta.
C5_Witness ==
    dphase = "out" /\ dtgt - dcur > HalfTurn /\ dres < 0 /\ dres = dtgt - dcur - Rev

\* C6: the delta ((target - current + 540) mod 360) - 180 lies in (-180, 180]
\* (8.0.py, ben.py, Ben_Lab8.py).
C6_DeltaHalfOpenAbove ==
    (dphase = "out" /\ dv \in {"8.0", "ben", "Ben_Lab8"}) =>
        (dres > -HalfTurn /\ dres <= HalfTurn)

\* C7: commands of one axis are executed in submission order: a later command
\* takes no step before every earlier command of its axis is over
\* (lab8_stepper_multiprocessing.py, Ben_Lab8.py,
\* stepper_class_shiftregister_multiprocessing.py).
C7_SubmissionOrder ==
    variant \in {"lab8mp", "Ben_Lab8", "scsm"} =>
        \A p, q \in Procs :
            (p < q /\ Submitted(q) /\ proc[p].axis = proc[q].axis /\ HasStepped(q)) => MoveOver(p)

\* C8: at most one move per axis is executing at any time (steppa.py, ben.py,
\* lab8_stepper_multiprocessing.py).
C8_OneMovePerAxis ==
    variant \in {"steppa", "ben", "lab8mp"} =>
        \A p, q \in Procs :
            (p # q /\ proc[p].axis = proc[q].axis) => ~(InFlight(p) /\ InFlight(q))

\* the goAngle calls made on axis a so far, all over, none of them relative,
\* and no zero() in between
AbsSequenceOver(a) ==
    /\ nzero = 0
    /\ \E p \in Procs : Submitted(p) /\ proc[p].axis = a
    /\ \A p \in Procs : (Submitted(p) /\ proc[p].axis = a) => (proc[p].pc = "done" /\ proc[p].kind = "abs")

LastTarget(a) ==
    LET last == CHOOSE p \in Procs :
                   /\ Submitted(p) /\ proc[p].axis = a
                   /\ \A q \in Procs : (Submitted(q) /\ proc[q].axis = a) => q <= p
    IN  proc[last].arg % Rev

\* C9: each absolute move computes its delta from the angle the axis has when
\* the move begins, after the earlier ones are over; so once a back-to-back
\* sequence goAngle(t1), ..., goAngle(tk) is over the angle is within one step
\* of tk mod 360 (ben.py, lab8_stepper_multiprocessing.py,
\* stepper_class_shiftregister_multiprocessing.py).
C9_FinalAngleIsLastTarget ==
    variant \in {"ben", "lab8mp", "scsm"} =>
        \A a \in Axes :
            AbsSequenceOver(a) => CircDist(angle[a], LastTarget(a)) <= StepUnits(variant)

\* C10: the direction and the step count of a move are fixed when it starts:
\* while the move is in flight no transition (a goAngle / rotate submitted
\* meanwhile included) changes its direction or its planned step count, and
\* its remaining steps only go down by one, at the end of one of its own steps.
C10_MoveNotRetargeted ==
    [][\A p \in Procs :
          InFlight(p) =>
              IF proc'[p].pc \in StepPcs
              THEN /\ proc'[p].dir = proc[p].dir
                   /\ proc'[p].n0 = proc[p].n0
                   /\ \/ proc'[p].rem = proc[p].rem
                      \/ (proc[p].pc = "ang" /\ proc'[p].rem = proc[p].rem - 1)
              ELSE LastStepTaken(p)]_vars

\* C10 witness: a second command was submitted to an axis while its first move
\* was in the middle of a step, and that move then finished the step with its
\* direction unchanged.
C10_Witness ==
    \E p, q \in Procs : /\ p < q
                        /\ proc[p].axis = proc[q].axis
                        /\ proc[p].pc = "ang"
                        /\ proc[p].rem >= 1
                        /\ proc[p].dir = -1
                        /\ proc[q].pc \in {"queued", "start"}

\* C11: in the queue variants (lab8_stepper_multiprocessing.py, Ben_Lab8.py) a
\* goAngle / rotate call only appends one command to the axis's queue: the
\* call changes neither an angle, nor a step_state, nor the shared word, nor
\* the bus, nor a lock, nor any command already submitted.
C11_SubmitOnlyEnqueues ==
    [][(IsQueue(variant) /\ nsub' = nsub + 1) =>
          /\ angle' = angle /\ ss' = ss /\ word' = word /\ bus' = bus
          /\ block' = block /\ mlock' = mlock
          /\ \E a \in Axes :
                /\ queue' = [queue EXCEPT ![a] = Append(@, nsub')]
                /\ proc'[nsub'].pc = "queued" /\ proc'[nsub'].axis = a
          /\ \A p \in Procs : p # nsub' => proc'[p] = proc[p]]_vars

\* C11 witness: a command sits in an axis's queue, submitted while an earlier
\* move of the same axis is in the middle of a step.
C11_Witness ==
    \E p, q \in Procs : /\ IsQueue(variant)
                        /\ p < q
                        /\ proc[p].axis = proc[q].axis
                        /\ proc[p].pc \in {"store", "tx"}
                        /\ proc[q].pc = "queued"
                        /\ queue[proc[q].axis] = <<q>>

\* C12 (what zero() sets): once zero() has returned on an axis, and until that
\* axis takes a step, its angle is 0 and the step_state its next step starts
\* from is 0 (8.0.py, lab8_stepper_multiprocessing.py, Ben_Lab8.py).
C12_ZeroResetsAngleAndStepState ==
    variant \in {"8.0", "lab8mp", "Ben_Lab8"} =>
        \A a \in Axes : zeroed = a => (angle[a] = 0 /\ ss[a] = 0)

\* C13: 8.0.py, two axes at bit offsets 0 and 4, 1024 steps per revolution,
\* both at 0: once the concurrent goAngle(90) of axis 0 and goAngle(-90) of
\* axis 1 are both over, axis 0 is at 90, axis 1 at 270, and the shared word
\* is seq[step_state of axis 0] OR (seq[step_state of axis 1] << 4), under
\* every interleaving.
C13_ConcurrentQuarterTurns ==
    (proc[1].pc = "done" /\ proc[2].pc = "done") =>
        /\ angle[0] = ScenarioAngle * Degree
        /\ angle[1] = Rev - ScenarioAngle * Degree
        /\ word = SeqAt(ss[0]) + SeqAt(ss[1]) * Pow2(SliceBits)
        /\ bus = word

\* C13 witness: both moves are over, each after its 256 steps.
C13_Witness ==
    /\ proc[1].pc = "done" /\ proc[1].axis = 0 /\ proc[1].n0 = (ScenarioAngle * StepsPerRevLo) \div FullTurn
    /\ proc[2].pc = "done" /\ proc[2].axis = 1 /\ proc[2].n0 = (ScenarioAngle * StepsPerRevLo) \div FullTurn
    /\ BitStart(0) = 0 /\ BitStart(1) = 4

\* the one move of a swept run: the delta __rotate was called with, the steps
\* whose angle update is done, whether the move is over
MoveDelta == IF proc[1].kind = "rel" THEN proc[1].arg ELSE ShortestDelta(variant, dcur, proc[1].arg)
MoveStepsDone == proc[1].n0 - proc[1].rem
MoveDone == proc[1].pc = "done"

\* C14 as claimed: a move by delta is over after round(stepsPerDegree * |delta|)
\* steps, the nearest whole number, all in direction sign(delta) (8.0.py,
\* lab8_stepper_multiprocessing.py, steppa.py __rotate).
C14_StepsRounded ==
    (MoveDone /\ variant \in {"8.0", "lab8mp", "steppa"}) =>
        /\ 2 * Abs(proc[1].n0 * StepUnits(variant) - Abs(MoveDelta)) <= StepUnits(variant)
        /\ angle[0] = (dcur + Sgn(MoveDelta) * proc[1].n0 * StepUnits(variant)) % Rev

\* C14 amended: a move by delta is over after the whole part of
\* stepsPerDegree * |delta| steps (truncated, never rounded up), all in
\* direction sign(delta).
C14_StepsTruncated ==
    (MoveDone /\ variant \in {"8.0", "lab8mp", "steppa"}) =>
        /\ proc[1].n0 * StepUnits(variant) <= Abs(MoveDelta)
        /\ Abs(MoveDelta) < (proc[1].n0 + 1) * StepUnits(variant)
        /\ angle[0] = (dcur + Sgn(MoveDelta) * proc[1].n0 * StepUnits(variant)) % Rev

\* C14 witness: a relative move backwards by a delta that is not a whole number
\* of steps is over, having taken steps.
C14_Witness ==
    /\ MoveDone
    /\ proc[1].kind = "rel"
    /\ proc[1].arg < 0
    /\ Abs(proc[1].arg) % StepUnits(variant) # 0
    /\ proc[1].n0 > 0
    /\ angle[0] # dcur

\* C15: after n steps of the move, all in its direction d, from the start
\* angle A, the angle is (A + n * d / stepsPerDegree) mod 360, for every n up
\* to the last step (8.0.py, lab8_stepper_multiprocessing.py).
C15_AngleAfterNSteps ==
    (dphase = "move" /\ variant \in {"8.0", "lab8mp"} /\ proc[1].pc \in StepPcs \cup {"done"}) =>
        LET d == Sgn(MoveDelta)
            n == MoveStepsDone
        IN  /\ angle[0] = (dcur + n * d * StepUnits(variant)) % Rev
            /\ (angle[0] \div StepUnits(variant)) = ((dcur \div StepUnits(variant)) + n * d) % StepsPerRev(variant)

\* C15 witness: a backward move from a non-zero start angle has taken more
\* steps than lead down to 0, so the angle has wrapped, and is still stepping.
C15_Witness ==
    /\ dphase = "move"
    /\ variant = "lab8mp"
    /\ proc[1].pc = "adv"
    /\ proc[1].dir = -1
    /\ dcur > 0
    /\ MoveStepsDone * StepUnits(variant) > dcur
    /\ angle[0] > dcur

\* C16: once a single goAngle(target) on an otherwise idle axis is over, the
\* angle is within one step of target mod 360, whatever the start angle and
\* the target (8.0.py, steppa.py; the other variants as well).
C16_GoAngleWithinOneStep ==
    (dphase = "move" /\ proc[1].pc = "done" /\ proc[1].kind = "abs") =>
        CircDist(angle[0], proc[1].arg % Rev) <= StepUnits(variant)

\* C16 witness: a goAngle to a target below the start angle and not a whole
\* number of steps away is over in steppa.py, ending short of the target.
C16_Witness ==
    /\ dphase = "move"
    /\ variant = "steppa"
    /\ proc[1].pc = "done" /\ proc[1].kind = "abs"
    /\ proc[1].n0 > 0
    /\ CircDist(dcur, angle[0]) = proc[1].n0 * StepUnits(variant)
    /\ (angle[0] - proc[1].arg) % Rev > 0
    /\ (angle[0] - proc[1].arg) % Rev < StepUnits(variant)

\* C17: the sequence table has 8 entries, and when a move has taken 8 steps,
\* all in its one direction, the step_state is what it was before the first
\* of them (8.0.py, Ben_Lab8.py).
C17_EightStepsReturn ==
    /\ Len(seq) = 8
    /\ (dphase = "move" /\ variant \in {"8.0", "Ben_Lab8"} /\ proc[1].pc = "adv" /\ MoveStepsDone = SeqLen) =>
          ss[0] = (dcur \div StepUnits(variant)) % SeqLen

\* C17 witness: a backward move that started at step_state 3 is about to take
\* its ninth step.
C17_Witness ==
    /\ dphase = "move"
    /\ variant = "Ben_Lab8"
    /\ proc[1].pc = "adv"
    /\ proc[1].dir = -1
    /\ MoveStepsDone = SeqLen
    /\ (dcur \div StepUnits(variant)) % SeqLen = 3
    /\ ss[0] = 3

\* C18: a goAngle / rotate call with a non-finite argument is rejected at the
\* call: its command is never on a queue nor handed to a worker, and no
\* worker process ever ends on it (lab8_stepper_multiprocessing.py,
\* Ben_Lab8.py).
C18_NonFiniteRejected ==
    \A p \in Procs : proc[p].nan => proc[p].pc \notin {"queued", "start", "dead"}

\* C20: every command accepted by goAngle / rotate of a queue variant is
\* executed by the axis's worker: once queued, it is eventually done
\* (lab8_stepper_multiprocessing.py, Ben_Lab8.py).
C20_EveryCommandExecuted ==
    \A p \in Procs : (proc[p].pc = "queued") ~> (proc[p].pc = "done")

\* C19: no Stepper is ever registered whose 4-bit slice does not fit in the
\* transmitted word (the 8 bits shiftByte sends) and in the stored word (the
\* value bits of the c_int): such a registration is rejected (8.0.py,
\* shifter.py).
C19_RegisteredSlicesFit ==
    \A a \in Axes : a < nreg => /\ BitStart(a) + SliceBits <= ShiftBits
                                /\ BitStart(a) + SliceBits <= WordBits - 1

\* C21: a step of axis X computes step_index = (old + dir) mod 8 and the
\* nibble sequenceTable[step_index]; its store makes the shared word
\* (oldWord AND NOT (0xF << 4*X)) OR (nibble << 4*X), bit by bit, and when
\* its transmit ends the slice [4*X, 4*X+4) of the stored word is that nibble
\* (8.0.py, lab8_stepper_multiprocessing.py).
C21_OwnSliceIsSequenceEntry ==
    [][\A p \in Procs :
          LET a == proc[p].axis
          IN  variant \in {"8.0", "lab8mp"} =>
                /\ (proc[p].pc = "adv" /\ proc'[p].pc = "acq") =>
                       /\ ss'[a] = (ss[a] + proc[p].dir) % SeqLen
                       /\ proc'[p].nib = seq[ss'[a] + 1]
                /\ (proc[p].pc = "store" /\ proc'[p].pc = "tx") =>
                       \A i \in 0 .. (WordBits - 2) :
                           Bit(word', i) = IF OutsideSlice(i, a)
                                           THEN Bit(word, i)
                                           ELSE Bit(proc[p].nib, i - SliceBits * a)
                /\ (proc[p].pc = "tx" /\ proc'[p].pc = "ang") =>
                       (word' \div Pow2(SliceBits * a)) % Pow2(SliceBits) = proc[p].nib]_vars

\* C21 witness: a step has stored its nibble over a different, non-zero nibble
\* that an earlier step of the same axis left in the slice and on the bus.
C21_Witness ==
    \E p \in Procs : /\ variant \in {"8.0", "lab8mp"}
                     /\ proc[p].pc = "tx"
                     /\ Nibble(word, proc[p].axis) = proc[p].nib
                     /\ Nibble(bus, proc[p].axis) \notin {0, proc[p].nib}

\* C22: every transmit of the shared word sends max(8, 4 * axisCount) bits,
\* so the bits on the bus after a transmit include the slice of every
\* registered axis as the stored word has it (shifter.py, 8.0.py,
\* stepper_class_shiftregister_multiprocessing2.py).
C22_TransmitCoversAllAxes ==
    [][\A p \in Procs :
          (proc[p].pc = "tx" /\ proc'[p].pc = "ang") =>
              /\ ShiftBits = TotalBits(nreg)
              /\ \A a \in Axes : a < nreg => Nibble(bus', a) = Nibble(word, a)]_vars

\* process p holds the lock that serialises access to the bus: the lock of
\* __step's with-block, or in stepper_class_shiftregister_multiprocessing.py
\* (whose __step takes none) the lock __rotate acquires
HoldsBusGuard(p) == block = p \/ (variant = "scsm" /\ mlock[proc[p].axis] = p)

\* C23: the lock that guards the bus is held only within one step's
\* read-modify-write-transmit: a process that is before a step, between two
\* steps (where it sleeps) or at the angle update holds no such lock, so
\* another axis using the same lock can step in between (8.0.py,
\* stepper_class_shiftregister_multiprocessing.py).
C23_BusLockHeldPerStep ==
    \A p \in Procs : HoldsBusGuard(p) => proc[p].pc \in {"store", "tx"}

\* C24: a process holds only locks of its own axis (the motor lock of one axis
\* at most, and that axis is the one it moves), and whenever some move has
\* steps remaining, some process with steps remaining can execute its next
\* statement: the bus lock, the guards of angle and step_state and the motor
\* locks never form a circular wait (8.0.py, lab8_stepper_multiprocessing.py).
C24_NoDeadlock ==
    /\ \A a \in Axes : mlock[a] # 0 => /\ proc[mlock[a]].axis = a
                                       /\ proc[mlock[a]].pc \in StepPcs
    /\ block # 0 => proc[block].pc \in {"store", "tx"}
    /\ (\E p \in Procs : InFlight(p)) => \E p \in Procs : InFlight(p) /\ ENABLED Proceed(p)

\* C24 witness: in lab8_stepper_multiprocessing.py two workers each hold their
\* motor's lock, one of them holds the bus lock as well and the other waits
\* for it.
C24_Witness ==
    \E p, q \in Procs : /\ variant = "lab8mp"
                        /\ mlock[proc[p].axis] = p
                        /\ mlock[proc[q].axis] = q
                        /\ block = p
                        /\ proc[q].pc = "acq"

\* C25: under fair scheduling every move that has started is eventually over,
\* and it is over only after the last of the steps computed at its start: the
\* count of remaining steps changes only by one per completed step, whatever
\* the other axes do and whatever zero() calls are made meanwhile (8.0.py,
\* lab8_stepper_multiprocessing.py).
C25_StartedMoveFinishes ==
    /\ [][\A p \in Procs :
             (variant \in {"8.0", "lab8mp"} /\ InFlight(p)) =>
                 /\ proc'[p].rem # proc[p].rem =>
                        (proc[p].pc = "ang" /\ proc'[p].rem = proc[p].rem - 1)
                 /\ proc'[p].pc = "done" => LastStepTaken(p)]_vars
    /\ \A p \in Procs :
           (variant \in {"8.0", "lab8mp"} /\ proc[p].pc \in {"start"} \cup StepPcs)
               ~> (proc[p].pc = "done")

\* C25 witness: a move that took a step is over although zero() was called
\* and a move of the other axis is still stepping.
C25_Witness ==
    \E p, q \in Procs : /\ variant \in {"8.0", "lab8mp"}
                        /\ proc[p].pc = "done"
                        /\ proc[p].n0 > 0
                        /\ nzero > 0
                        /\ InFlight(q)
                        /\ proc[q].axis # proc[p].axis

\* C26: the k-th Stepper created (k = 0, 1, 2, ...) has shifter_bit_start =
\* 4 * k, no step, move, zero() or later construction ever changes it, and
\* the 4-bit slices of two distinct Steppers share no bit (8.0.py,
\* lab8_stepper_multiprocessing.py).
C26_BitOffsetFixedAndDisjoint ==
    /\ [](\A a \in Axes : a < nreg => bitstart[a] = 4 * a)
    /\ [](\A a, b \in Axes :
             (a < nreg /\ b < nreg /\ a # b) =>
                 (bitstart[a] .. (bitstart[a] + 3)) \cap (bitstart[b] .. (bitstart[b] + 3)) = {})
    /\ [][\A a \in Axes : a < nreg => bitstart'[a] = bitstart[a]]_vars

\* C26 witness: a third Stepper has been created after the first two and has
\* taken a step.
C26_Witness ==
    /\ nreg = 3
    /\ bitstart[2] = 8
    /\ committed[2] # -1

\* the steps of axis a whose step_state advance is done and whose angle
\* update is still to come, counted with their direction
PendingSteps(a) ==
    LET Mid(d) == { p \in Procs : /\ proc[p].axis = a
                                  /\ proc[p].pc \in {"acq", "store", "tx", "ang"}
                                  /\ proc[p].dir = d }
    IN  Cardinality(Mid(1)) - Cardinality(Mid(-1))

\* angle measured in steps minus step_state, modulo the length of the
\* sequence, with the steps in progress counted as done (in angle units)
Lockstep(a) ==
    (angle[a] - StepUnits(variant) * (ss[a] - PendingSteps(a))) % (SeqLen * StepUnits(variant))

\* a transition of zero(): either of its two assignments
IsZero == nzero' # nzero \/ (zpend # -1 /\ zpend' = -1)

\* C27: apart from zero(), every change of an axis's angle is by exactly one
\* step increment, made by a process finishing a step whose direction is that
\* of its step_state change, and so (angle in steps - step_state) mod 8 is
\* left as it was by every transition other than zero() (Ben_Lab8.py, 8.0.py).
C27_AngleAndStepStateInLockstep ==
    [][\A a \in Axes :
          ~IsZero =>
              /\ angle'[a] # angle[a] =>
                     \E p \in Procs : /\ proc[p].axis = a
                                      /\ proc[p].pc = "ang"
                                      /\ proc[p].dir \in {-1, 1}
                                      /\ angle'[a] = (angle[a] + proc[p].dir * StepUnits(variant)) % Rev
              /\ Lockstep(a)' = Lockstep(a)]_vars

\* axis y's angle and step_state are the same after the transition
AxisUntouched(y) == angle'[y] = angle[y] /\ ss'[y] = ss[y]

\* C28: whatever a call, a step or the end of a move of axis X does, and
\* whatever either assignment of zero() on X does, the angle and the
\* step_state of every other axis Y are left as they were, in every
\* interleaving of the processes (8.0.py, steppa.py).
C28_OtherAxesUntouched ==
    [][/\ \A p \in Procs :
              proc'[p] # proc[p] => \A y \in Axes \ {proc'[p].axis} : AxisUntouched(y)
       /\ nzero' # nzero =>
              \E x \in Axes : angle'[x] = 0 /\ \A y \in Axes \ {x} : AxisUntouched(y)
       /\ (zpend # -1 /\ zpend' = -1) => \A y \in Axes \ {zpend} : AxisUntouched(y)]_vars

\* C28 witness: zero() of axis 0 has just completed while axis 1, in the
\* middle of a move, has a non-zero angle and step_state.
C28_Witness ==
    \E p \in Procs : /\ zeroed = 0
                     /\ proc[p].axis = 1
                     /\ InFlight(p)
                     /\ angle[1] # 0
                     /\ ss[1] # 0

\* the step_state the one move's process works on, and what it was when the
\* move began (ben.py: the process's own copy of the attribute, 0 in the parent)
MoveStepState == IF SharedStepState(variant) THEN ss[0] ELSE proc[1].lss
MoveStepState0 == IF SharedStepState(variant) THEN (dcur \div StepUnits(variant)) % SeqLen ELSE 0

\* step_state after j steps of the move, and axis 0's nibble on the bus once
\* the j-th step has been transmitted (j = 0: what the bus held before)
StepStateOfStep(j) == (MoveStepState0 + j * Sgn(MoveDelta)) % SeqLen
NibbleOfStep(j) == IF j = 0 THEN Nibble(ShiftByte(IF dcur = 0 THEN 0
                                                  ELSE SeqAt((dcur \div StepUnits(variant)) % SeqLen)), 0)
                   ELSE SeqAt(StepStateOfStep(j))

\* C29: within a step, step_state is advanced first, then the word is stored
\* and transmitted, then the angle is updated: when the angle shows n steps of
\* the move, the bus carries the nibble of step n or already that of step
\* n + 1, and it carries that of step n + 1 only if step_state is that of step
\* n + 1 as well; an angle is never ahead of the bus (8.0.py, ben.py).
C29_AngleNeverAheadOfBus ==
    (dphase = "move" /\ variant \in {"8.0", "ben"} /\ proc[1].pc \in StepPcs \cup {"done"}) =>
        LET n == MoveStepsDone
        IN  /\ angle[0] = (dcur + n * Sgn(MoveDelta) * StepUnits(variant)) % Rev
            /\ Nibble(bus, 0) \in {NibbleOfStep(n), NibbleOfStep(n + 1)}
            /\ proc[1].pc \in StepPcs =>
                   \/ MoveStepState = StepStateOfStep(n) /\ Nibble(bus, 0) = NibbleOfStep(n)
                   \/ MoveStepState = StepStateOfStep(n + 1)
            /\ proc[1].pc \in {"adv", "done"} => Nibble(bus, 0) = NibbleOfStep(n)
            /\ proc[1].pc = "ang" => Nibble(bus, 0) = NibbleOfStep(n + 1)

\* C29 witness: the third step of a move has been transmitted and its angle
\* update is still to come: the bus is one step ahead of the angle.
C29_Witness ==
    /\ dphase = "move"
    /\ variant \in {"8.0", "ben"}
    /\ proc[1].pc = "ang"
    /\ MoveStepsDone = 2
    /\ Nibble(bus, 0) = NibbleOfStep(3)
    /\ angle[0] = (dcur + 2 * Sgn(MoveDelta) * StepUnits(variant)) % Rev

\* what the word, the bus and axis 0's step_state were when the one move was
\* called: the state k forward steps from zero leave, k = dcur in steps
MoveStartWord == IF dcur = 0 THEN 0 ELSE SeqAt((dcur \div StepUnits(variant)) % SeqLen)
MoveStartStepState == (dcur \div StepUnits(variant)) % SeqLen

\* C30: a move whose delta is 0 (rotate(0), or goAngle to the current angle
\* or to it plus a full turn) never enters a step: nothing is transmitted,
\* and the bus, the shared word, the axis's angle and its step_state are what
\* they were when the move was called (8.0.py, steppa.py).
C30_ZeroDeltaMoveDoesNothing ==
    (dphase = "move" /\ variant \in {"8.0", "steppa"} /\ Submitted(1) /\ MoveDelta = 0) =>
        /\ proc[1].pc \in {"start", "done"}
        /\ proc[1].n0 = 0
        /\ bus = ShiftByte(MoveStartWord)
        /\ committed[0] = (IF dcur = 0 THEN -1 ELSE MoveStartWord)
        /\ word = MoveStartWord
        /\ angle[0] = dcur
        /\ ss[0] = MoveStartStepState

\* C30 witness: goAngle to the current, non-zero angle is over.
C30_Witness ==
    /\ dphase = "move"
    /\ variant \in {"8.0", "steppa"}
    /\ proc[1].pc = "done"
    /\ proc[1].kind = "abs"
    /\ proc[1].arg = dcur
    /\ dcur # 0
    /\ MoveDelta = 0

\* the pin writes the claim prescribes for shiftByte(b): for i = 0..7 the bit
\* i on the serial pin and one clock pulse, then one latch pulse
ExpectedWire(b) ==
    [k \in 1 .. (3 * 8 + 2) |->
        IF k > 3 * 8 THEN <<"latch", IF k = 3 * 8 + 1 THEN 1 ELSE 0>>
        ELSE LET i == (k - 1) \div 3
                 r == (k - 1) % 3
             IN  IF r = 0 THEN <<"serial", (b \div Pow2(i)) % 2>>
                 ELSE <<"clock", IF r = 1 THEN 1 ELSE 0>>]

\* C31: shiftByte(b) writes, for i = 0..7 in that order, bit i of b to the
\* serial pin followed by exactly one clock pulse (high, low), and after the
\* eighth clock pulse exactly one latch pulse; at every moment the writes made
\* so far are a prefix of that sequence, so no latch write comes early
\* (shifter.py).
C31_ShiftByteLsbFirstThenLatch ==
    shift.pc # "idle" =>
        /\ Len(shift.wire) <= Len(ExpectedWire(shift.b))
        /\ \A k \in 1 .. Len(shift.wire) : shift.wire[k] = ExpectedWire(shift.b)[k]
        /\ shift.pc = "done" => shift.wire = ExpectedWire(shift.b)

\* C31 witness: shiftByte(0b01100110), the pattern of the file's own test, has
\* returned, latch pulsed last.
C31_Witness ==
    /\ shift.pc = "done"
    /\ shift.b = 102
    /\ shift.wire[Len(shift.wire)] = <<"latch", 0>>
    /\ shift.wire[4] = <<"serial", 1>>

\* C32: zero() takes effect in the transition that calls it and cancels,
\* shortens or retargets nothing: neither of its assignments changes any
\* process or queue, a move in flight keeps the step count computed at its
\* start and ends only on its last step, and whatever is queued or in flight
\* once zero() has been called is eventually executed to its end (8.0.py,
\* lab8_stepper_multiprocessing.py).
C32_ZeroCancelsNothing ==
    /\ [][IsZero => (proc' = proc /\ queue' = queue)]_vars
    /\ [][\A p \in Procs :
             (variant \in {"8.0", "lab8mp"} /\ InFlight(p)) =>
                 /\ proc'[p].n0 = proc[p].n0
                 /\ proc'[p].axis = proc[p].axis /\ proc'[p].arg = proc[p].arg
                 /\ proc'[p].pc \in StepPcs => (proc'[p].dir = proc[p].dir /\ proc'[p].rem \in {proc[p].rem, proc[p].rem - 1})
                 /\ proc'[p].pc \notin StepPcs => (proc'[p].pc = "done" /\ LastStepTaken(p))]_vars
    /\ \A p \in Procs :
           (variant \in {"8.0", "lab8mp"} /\ nzero > 0 /\ proc[p].pc \in {"queued", "start"} \cup StepPcs)
               ~> (proc[p].pc = "done")

\* C32 witness: zero() of an axis has just returned while a move of that axis
\* is in the middle of a step and another command waits in its queue.
C32_Witness ==
    \E p, q \in Procs : /\ variant = "lab8mp"
                        /\ zeroed = proc[p].axis
                        /\ proc[p].pc \in {"acq", "store", "tx", "ang"}
                        /\ proc[q].pc = "queued"
                        /\ proc[q].axis = proc[p].axis

\* C33: zero() never writes the shared word and never transmits: across each
\* of its assignments the stored word and the last transmitted word are what
\* they were, for every axis, in every state.
C33_ZeroLeavesWordAndBus ==
    [][IsZero => (word' = word /\ bus' = bus)]_vars

\* C33 witness: zero() of an axis has just returned while the stored word and
\* the register outputs hold energised coils.
C33_Witness ==
    /\ variant \in {"8.0", "steppa", "lab8mp"}
    /\ zeroed # -1
    /\ word # 0
    /\ bus # 0

\* the index of a nibble in the sequence table
SeqIndexOf(n) == CHOOSE i \in 0 .. (SeqLen - 1) : SeqAt(i) = n

\* two nibbles that are neighbours in the sequence table
AdjacentEntries(m, n) == (SeqIndexOf(n) - SeqIndexOf(m)) % SeqLen \in {1, SeqLen - 1}

\* C34: for every axis, each nibble a step puts out and the nibble the axis
\* put out before it are adjacent entries of the 8-entry sequence table,
\* after any goAngle, rotate and zero() calls (8.0.py, steppa.py, ben.py).
C34_ConsecutiveNibblesAdjacent ==
    [][\A p \in Procs :
          LET a == proc[p].axis
          IN  (/\ variant \in {"8.0", "steppa", "ben"}
               /\ proc[p].pc = "tx" /\ proc'[p].pc = "ang"
               /\ committed[a] # -1)
                  => AdjacentEntries(committed[a], committed'[a])]_vars

\* the variants whose shortest-delta formulas C35 compares
DeltaFormulaVariants == {"8.0", "scsm", "lab8mp", "steppa"}

\* C35: for every current angle and target in [0, 360) the shortest-delta
\* computations of 8.0.py, stepper_class_shiftregister_multiprocessing.py,
\* lab8_stepper_multiprocessing.py and steppa.py return the same signed delta.
C35_DeltaFormulasAgree ==
    (dphase = "out" /\ dv \in DeltaFormulaVariants) =>
        \A v \in DeltaFormulaVariants : dres = ShortestDelta(v, dcur, dtgt)

\* ------------------------------------------------------------ the joining wrappers of 8.0.py
\* goAnglesSimultaneous(motors, targets) and goAngleBlocking(target) called by
\* the main program: one Process per motor is started, then each is joined,
\* then the main program reads the angles (the print after each call)
JoinTargets(v) == Targets(v) \cup { (5 * StepUnits(v)) \div 2, -((5 * StepUnits(v)) \div 2) }

\* the motor lists of a simultaneous call: one or two registered motors
MotorLists == { <<a>> : a \in 0 .. (NumAxes - 1) } \cup
              { <<a, b>> : a, b \in 0 .. (NumAxes - 1) }

InitJoin ==
    /\ variant = "8.0"
    /\ InitAxes
    /\ AuxIdle
    /\ DeltaIdle

\* the number of pairs zip(motors, target_angles) yields: it stops at the end
\* of the shorter list
ZipLen(ms, ts) == IF Len(ms) <= Len(ts) THEN Len(ms) ELSE Len(ts)

\* goAnglesSimultaneous(motors, target_angles) is entered: procs = []
CallSimultaneous(ms, ts) ==
    /\ caller.pc \in {"idle", "returned"}
    /\ nsub + ZipLen(ms, ts) <= MaxCmds
    /\ caller' = [CallerIdle EXCEPT !.pc = IF ZipLen(ms, ts) = 0 THEN "join" ELSE "spawn",
                                    !.op = "simultaneous", !.motors = ms, !.tgts = ts,
                                    !.from = angle]
    /\ UNCHANGED <<variant, pins, shift, bug, wk>>
    /\ UNCHANGED axisvars
    /\ UNCHANGED deltavars

\* m.goAngleBlocking(target_angle) is entered
CallBlocking(a, t) ==
    /\ caller.pc \in {"idle", "returned"}
    /\ a < nreg
    /\ nsub < MaxCmds
    /\ caller' = [CallerIdle EXCEPT !.pc = "spawn", !.op = "blocking", !.motors = <<a>>, !.tgts = <<t>>,
                                    !.from = angle]
    /\ UNCHANGED <<variant, pins, shift, bug, wk>>
    /\ UNCHANGED axisvars
    /\ UNCHANGED deltavars

\* for m, a in zip(motors, target_angles):
\*     p = Process(target=m.goAngle, args=(a,)); p.start(); procs.append(p)
SpawnMove ==
    /\ caller.pc = "spawn"
    /\ LET i == Len(caller.procs) + 1
           p == nsub + 1
       IN  /\ proc' = [proc EXCEPT ![p] =
                         [FreeProc EXCEPT !.pc = "start", !.axis = caller.motors[i], !.kind = "abs",
                                          !.arg = caller.tgts[i], !.langle = angle[caller.motors[i]]]]
           /\ caller' = [caller EXCEPT !.procs = Append(@, p),
                                       !.pc = IF i = ZipLen(caller.motors, caller.tgts) THEN "join" ELSE "spawn"]
    /\ nsub' = nsub + 1
    /\ UNCHANGED <<variant, pins, shift, bug, wk, nreg, bitstart, queue, word, bus, ss, angle, block, mlock, zpend, committed, nzero, zeroed>>
    /\ UNCHANGED deltavars

\* a join that returns whether or not the process has ended
JoinMoveNoWait ==
    /\ caller.pc = "join"
    /\ caller.k < Len(caller.procs)
    /\ caller' = [caller EXCEPT !.k = @ + 1]
    /\ UNCHANGED <<variant, pins, shift, bug, wk>>
    /\ UNCHANGED axisvars
    /\ UNCHANGED deltavars

\* p.join(): returns once the process has ended
JoinMove ==
    /\ caller.pc = "join"
    /\ caller.k < Len(caller.procs)
    /\ proc[caller.procs[caller.k + 1]].pc = "done"
    /\ caller' = [caller EXCEPT !.k = @ + 1]
    /\ UNCHANGED <<variant, pins, shift, bug, wk>>
    /\ UNCHANGED axisvars
    /\ UNCHANGED deltavars

\* the call returns and the main program reads m.angle.value of every motor
ReturnRead ==
    /\ caller.pc = "join"
    /\ caller.k = Len(caller.procs)
    /\ caller' = [caller EXCEPT !.pc = "returned", !.seen = angle]
    /\ UNCHANGED <<variant, pins, shift, bug, wk>>
    /\ UNCHANGED axisvars
    /\ UNCHANGED deltavars

NextJoin ==
    \/ \E ms \in MotorLists, ts \in [1 .. 1 -> JoinTargets(variant)] \cup [1 .. 2 -> JoinTargets(variant)] :
           CallSimultaneous(ms, ts)
    \/ \E a \in Axes, t \in JoinTargets(variant) : CallBlocking(a, t)
    \/ SpawnMove
    \/ JoinMove
    \/ ReturnRead
    \/ \E p \in Procs : BeginMove(p)
    \/ \E p \in Procs : Advance(p)
    \/ \E p \in Procs : AcquireRead(p)
    \/ \E p \in Procs : Store(p)
    \/ \E p \in Procs : Transmit(p)
    \/ \E p \in Procs : UpdateAngle(p)

SpecJoin == InitJoin /\ [][NextJoin]_vars

\* the motors that the call in progress moves are all different
DistinctMotors == \A i, j \in 1 .. ZipLen(caller.motors, caller.tgts) : i # j => caller.motors[i] # caller.motors[j]

\* the angle a motor ends at when it goes from angle c to target t
FinalAngle(c, t) ==
    LET d == ShortestDelta(variant, c, t)
    IN  (c + Sgn(d) * NumSteps(variant, d) * StepUnits(variant)) % Rev

\* C36 as stated: goAnglesSimultaneous starts one move per motor of its list
\* before it waits for any of them: once its first loop is over there are as
\* many processes as motors.
C36_OneMovePerMotor ==
    (caller.op = "simultaneous" /\ caller.pc \in {"join", "returned"}) =>
        Len(caller.procs) = Len(caller.motors)

\* C36: goAnglesSimultaneous starts one move per (motor, target) pair, as many
\* as the shorter of its two lists has entries, before it waits for any of
\* them, and returns only after every one of them has taken its last step;
\* goAngleBlocking returns only after its move has taken its last step; the
\* angles the caller reads after the return are the final angles of the moves
\* (8.0.py).
C36_WrappersJoinTheirMoves ==
    /\ (caller.pc = "spawn" => caller.k = 0)
    /\ (caller.pc \in {"join", "returned"} =>
           /\ Len(caller.procs) = ZipLen(caller.motors, caller.tgts)
           /\ \A i \in 1 .. Len(caller.procs) :
                  /\ Submitted(caller.procs[i])
                  /\ proc[caller.procs[i]].axis = caller.motors[i]
                  /\ proc[caller.procs[i]].arg = caller.tgts[i])
    /\ (caller.pc = "returned" =>
           /\ \A i \in 1 .. Len(caller.procs) : proc[caller.procs[i]].pc = "done"
           /\ caller.seen = angle
           /\ DistinctMotors =>
                  \A i \in 1 .. Len(caller.procs) :
                      caller.seen[caller.motors[i]] = FinalAngle(caller.from[caller.motors[i]], caller.tgts[i]))

\* C36 witness: a simultaneous call on two motors has returned, each motor
\* has taken two steps in its own direction and the caller read both angles.
C36_Witness ==
    /\ caller.pc = "returned" /\ caller.op = "simultaneous"
    /\ caller.motors = <<0, 1>>
    /\ proc[1].n0 = 2 /\ proc[2].n0 = 2
    /\ caller.seen[0] = 2 * StepUnits(variant)
    /\ caller.seen[1] = Rev - 2 * StepUnits(variant)

\* ------------------------------------------------------------ close() of Ben_Lab8.py
\* The main program enqueues targets and closes motors; each worker takes
\* its queue in order and leaves its loop at the exit signal.
InitClose ==
    /\ variant = "Ben_Lab8"
    /\ InitAxes
    /\ AuxIdle
    /\ DeltaIdle

\* the worker process of an axis has ended with an uncaught exception
WorkerDead(a) == \E p \in Procs : proc[p].axis = a /\ proc[p].pc = "dead"

\* the worker process of an axis is no longer alive
WorkerTerminated(a) == wk[a] = "exited" \/ WorkerDead(a)

\* close(): self.cmd_queue.put(None), then the join begins
ClosePut(a) ==
    /\ caller.pc \in {"idle", "returned"}
    /\ a < nreg
    /\ caller.mark[a] = -1
    /\ queue' = [queue EXCEPT ![a] = Append(@, ExitSignal)]
    /\ caller' = [caller EXCEPT !.pc = "join", !.op = "close", !.motors = <<a>>, !.mark[a] = nsub]
    /\ UNCHANGED <<variant, pins, shift, bug, wk, nreg, bitstart, proc, nsub, word, bus, ss, angle, block, mlock, zpend, committed, nzero, zeroed>>
    /\ UNCHANGED deltavars

\* close(): self.worker.join() returns once the worker process has ended
CloseJoin ==
    /\ caller.pc = "join"
    /\ caller.op = "close"
    /\ WorkerTerminated(caller.motors[1])
    /\ caller' = [caller EXCEPT !.pc = "returned"]
    /\ UNCHANGED <<variant, pins, shift, bug, wk>>
    /\ UNCHANGED axisvars
    /\ UNCHANGED deltavars

\* __worker_loop: target = queue.get(); if target is None: break
WorkerExit(a) ==
    /\ wk[a] = "run"
    /\ queue[a] # <<>>
    /\ Head(queue[a]) = ExitSignal
    /\ WorkerIdle(a)
    /\ queue' = [queue EXCEPT ![a] = Tail(@)]
    /\ wk' = [wk EXCEPT ![a] = "exited"]
    /\ UNCHANGED <<variant, pins, shift, bug, caller, nreg, bitstart, proc, nsub, word, bus, ss, angle, block, mlock, zpend, committed, nzero, zeroed>>
    /\ UNCHANGED deltavars

\* the main program is not inside close()
MainFree == caller.pc \in {"idle", "returned"}

NextClose ==
    \/ \E a \in Axes, x \in Targets(variant), t \in BOOLEAN : MainFree /\ Submit(a, "abs", x, t)
    \/ \E a \in Axes : MainFree /\ SubmitNonFinite(a, "abs")
    \/ \E a \in Axes : ClosePut(a)
    \/ CloseJoin
    \/ \E a \in Axes : WorkerExit(a)
    \/ \E a \in Axes : Dequeue(a)
    \/ \E p \in Procs : BeginMove(p)
    \/ \E p \in Procs : Crash(p)
    \/ \E p \in Procs : Advance(p)
    \/ \E p \in Procs : AcquireRead(p)
    \/ \E p \in Procs : Store(p)
    \/ \E p \in Procs : Transmit(p)
    \/ \E p \in Procs : UpdateAngle(p)
    \/ \E p \in Procs : Snap(p)

SpecClose == InitClose /\ [][NextClose]_vars

\* close() of axis a has returned
CloseReturned(a) == caller.mark[a] # -1 /\ ~(caller.pc = "join" /\ caller.motors = <<a>>)

\* C37: close() of the worker-queue Stepper of Ben_Lab8.py is graceful: once
\* the worker of a closed motor has ended every target enqueued before
\* close() has been executed to its end, close() returns only after the
\* worker has ended, and a target enqueued after close() is never executed.
C37_CloseIsGraceful ==
    \A a \in Axes :
        caller.mark[a] # -1 =>
            /\ CloseReturned(a) => WorkerTerminated(a)
            /\ WorkerTerminated(a) =>
                   \A p \in Procs : (p <= caller.mark[a] /\ proc[p].axis = a) => proc[p].pc = "done"
            /\ \A p \in Procs :
                   (p > caller.mark[a] /\ Submitted(p) /\ proc[p].axis = a) => proc[p].pc = "queued"

\* ------------------------------------------------------------ the Bug of bug_class.py
\* One Bug object, its update threads and the controlling thread that calls
\* start() and stop(); isWrapOn is toggled by another thread at any moment.
BugPositions == 0 .. (ShiftBits - 1)

InitBug ==
    /\ variant = "8.0"
    /\ InitAxes
    /\ DeltaIdle
    /\ pins = PinsIdle
    /\ shift = ShiftIdle
    /\ wk = [a \in Axes |-> "run"]
    /\ caller = CallerIdle
    /\ \E x \in BugPositions, w \in BOOLEAN : bug = [BugIdle EXCEPT !.made = TRUE, !.x = x, !.wrap = w]

BugFrame == UNCHANGED <<variant, pins, shift, wk, caller>> /\ UNCHANGED axisvars /\ UNCHANGED deltavars

\* a thread that is between its start and the end of __update
Alive(i) == bug.thr[i].pc \notin {"none", "ended", "dead"}

\* start() without the test of __running
StartUnguarded ==
    /\ bug.mpc = "idle"
    /\ bug.ncalls < MaxStarts
    /\ bug' = [bug EXCEPT !.ncalls = @ + 1, !.stopped = FALSE, !.running = TRUE,
                          !.cur = bug.ncalls + 1,
                          !.thr[bug.ncalls + 1] = [ThreadNone EXCEPT !.pc = "while"]]
    /\ BugFrame

\* start(): if not __running: __running = True, a new Thread runs __update
Start ==
    /\ bug.mpc = "idle"
    /\ bug.ncalls < MaxStarts
    /\ bug' = IF bug.running
              THEN [bug EXCEPT !.ncalls = @ + 1, !.stopped = FALSE]
              ELSE [bug EXCEPT !.ncalls = @ + 1, !.stopped = FALSE, !.running = TRUE,
                               !.cur = bug.ncalls + 1,
                               !.thr[bug.ncalls + 1] = [ThreadNone EXCEPT !.pc = "while"]]
    /\ BugFrame

\* stop(): __running = False
StopBegin ==
    /\ bug.mpc = "idle"
    /\ bug' = [bug EXCEPT !.running = FALSE, !.stopped = FALSE,
                          !.mpc = IF bug.cur # 0 THEN "join" ELSE "clear"]
    /\ BugFrame

\* stop(): if self.__thread: self.__thread.join()
StopJoin ==
    /\ bug.mpc = "join"
    /\ ~Alive(bug.cur)
    /\ bug' = [bug EXCEPT !.mpc = "clear"]
    /\ BugFrame

\* stop(): shiftByte(0), and stop() returns
StopClear ==
    /\ bug.mpc = "clear"
    /\ bug' = [bug EXCEPT !.last = ShiftByte(0), !.mpc = "idle", !.stopped = TRUE]
    /\ BugFrame

\* bug.isWrapOn = not bug.isWrapOn, from another thread
ToggleWrap ==
    /\ bug' = [bug EXCEPT !.wrap = ~@]
    /\ BugFrame

\* while self.__running:
LoopTest(i) ==
    /\ bug.thr[i].pc = "while"
    /\ bug' = [bug EXCEPT !.thr[i].pc = IF bug.running THEN "pattern" ELSE "ended"]
    /\ BugFrame

\* pattern = 1 << self.x (a negative shift count raises ValueError)
MakePattern(i) ==
    /\ bug.thr[i].pc = "pattern"
    /\ bug' = IF bug.x < 0
              THEN [bug EXCEPT !.thr[i].pc = "dead"]
              ELSE [bug EXCEPT !.thr[i].pattern = Pow2(bug.x), !.thr[i].pc = "shift"]
    /\ BugFrame

\* self.__shifter.shiftByte(pattern); time.sleep(self.timestep)
ShiftPattern(i) ==
    /\ bug.thr[i].pc = "shift"
    /\ bug' = [bug EXCEPT !.last = ShiftByte(bug.thr[i].pattern), !.thr[i].pc = "move"]
    /\ BugFrame

\* step = random.choice([-1, 1]); self.x += step
Move(i, step) ==
    /\ bug.thr[i].pc = "move"
    /\ bug' = [bug EXCEPT !.x = @ + step, !.thr[i].x0 = bug.x, !.thr[i].pc = "if"]
    /\ BugFrame

\* if self.isWrapOn:
ReadWrap(i) ==
    /\ bug.thr[i].pc = "if"
    /\ bug' = [bug EXCEPT !.thr[i].rw = bug.wrap, !.thr[i].pc = IF bug.wrap THEN "wrap" ELSE "clamp"]
    /\ BugFrame

\* self.x %= 8
Wrap(i) ==
    /\ bug.thr[i].pc = "wrap"
    /\ bug' = [bug EXCEPT !.x = @ % ShiftBits, !.thr[i].pc = "while"]
    /\ BugFrame

\* the clamp with its upper limit one too high: max(0, min(8, self.x))
ClampHigh(i) ==
    /\ bug.thr[i].pc = "clamp"
    /\ bug' = [bug EXCEPT !.x = IF @ < 0 THEN 0 ELSE IF @ > ShiftBits THEN ShiftBits ELSE @,
                          !.thr[i].pc = "while"]
    /\ BugFrame

\* self.x = max(0, min(7, self.x))
Clamp(i) ==
    /\ bug.thr[i].pc = "clamp"
    /\ bug' = [bug EXCEPT !.x = IF @ < 0 THEN 0 ELSE IF @ > ShiftBits - 1 THEN ShiftBits - 1 ELSE @,
                          !.thr[i].pc = "while"]
    /\ BugFrame

NextBug ==
    \/ Start
    \/ StopBegin
    \/ StopJoin
    \/ StopClear
    \/ ToggleWrap
    \/ \E i \in Threads : LoopTest(i)
    \/ \E i \in Threads : MakePattern(i)
    \/ \E i \in Threads : ShiftPattern(i)
    \/ \E i \in Threads, step \in {-1, 1} : Move(i, step)
    \/ \E i \in Threads : ReadWrap(i)
    \/ \E i \in Threads : Wrap(i)
    \/ \E i \in Threads : Clamp(i)

SpecBug == InitBug /\ [][NextBug]_vars

\* the bits of a transmitted byte that are set
BitsSet(w) == { i \in 0 .. (2 * ShiftBits - 1) : Bit(w, i) = 1 }

\* C38: every pattern an update thread of a Bug created with x in 0..7
\* transmits has exactly one bit set, at the position x in 0..7, in wrap and
\* in no-wrap mode and whenever isWrapOn is toggled; an update that finds
\* wrap off never moves the position from 0 to 7 or from 7 to 0.
C38_PatternOneHot ==
    [][\A i \in Threads :
          /\ (bug.thr[i].pc = "shift" /\ bug'.thr[i].pc = "move") =>
                 /\ bug.x \in BugPositions
                 /\ BitsSet(bug'.last) = {bug.x}
          /\ (bug.thr[i].pc = "clamp" /\ bug'.thr[i].pc = "while") =>
                 /\ ~bug.thr[i].rw
                 /\ ~(bug.thr[i].x0 = 0 /\ bug'.x = ShiftBits - 1)
                 /\ ~(bug.thr[i].x0 = ShiftBits - 1 /\ bug'.x = 0)
                 /\ bug'.x \in BugPositions]_vars

\* C38 witness: with wrap off at the test, the thread has moved down from
\* position 0, stayed at 0 after the clamp, and is transmitting bit 0 again,
\* while isWrapOn has been switched on in between.
C38_Witness ==
    \E i \in Threads : /\ bug.thr[i].pc = "shift"
                       /\ bug.thr[i].x0 = 0
                       /\ ~bug.thr[i].rw
                       /\ bug.wrap
                       /\ bug.x = 0
                       /\ bug.last = 1
                       /\ bug.thr[i].pattern = 1

\* C39: for any sequence of start() and stop() calls of one controlling
\* thread at most one update thread is alive at any time, and from the
\* return of a stop() until the next start() no update thread is alive and
\* the last word given to the shifter is 0.
C39_OneThreadAndCleanStop ==
    /\ Cardinality({ i \in Threads : Alive(i) }) <= 1
    /\ bug.stopped => (/\ \A i \in Threads : ~Alive(i)
                       /\ bug.last = 0)

\* C39 witness: the second of two start() calls in a row started nothing,
\* the one thread showed a pattern and ended, and stop() has returned with
\* the LEDs off.
C39_Witness ==
    /\ bug.stopped
    /\ bug.ncalls = 2
    /\ bug.thr[1].pc = "ended"
    /\ bug.thr[1].pattern # 0
    /\ bug.thr[2].pc = "none"
    /\ bug.last = 0
====
